---- MODULE Spec2Model ----
(***************************************************************************)
(* The Azure image pipelines of lisa:                                      *)
(* lisa/sut_orchestrator/azure/transformers.py.                            *)
(*                                                                         *)
(* A run of VhdTransformer._internal_run (the export) is a process whose   *)
(* position is pc[r]; every remote call it makes is appended to calls[r]   *)
(* with its arguments and whether it returned (ok) or raised.  A run of    *)
(* SharedGalleryImageTransformer._internal_run (the publication) is kept   *)
(* the same way in sigPc and sigCalls.  The ensure calls both pipelines    *)
(* make on their shared resources are followed request by request in       *)
(* ephase.  Strings that the code builds or parses (the blob path, the     *)
(* full name of the image) are sequences of tokens, so that the parsing    *)
(* of PurePosixPath and of str.split is computed, not assumed.             *)
(***************************************************************************)
EXTENDS Integers, Sequences, FiniteSets, TLC

VARIABLES
    clock,      \* the wall clock read by get_date_str / get_datetime_path
    blobs,      \* names of the blobs in the export container
    nOther,     \* blobs written by exporters outside the modelled runs
    power,      \* power state of each VM: "running" | "stopped"
    sas,        \* whether a disk access grant is active on each VM's OS disk
    envNodes,   \* environment.nodes.list() of the addressed resource group
    rb,         \* the runbook (VhdTransformerSchema) of each run
    pc,         \* position of each run
    node,       \* the node the run resolved ("" before)
    calls,      \* the remote calls each run issued, in order
    attempts,   \* calls of _generate_vhd_path's body made by the retry decorator
    listing,    \* result of the last list_blobs of the run
    path,       \* local variable path of _export_vhd
    sasUrl,     \* local variable sas_url of _export_vhd
    vhdPath,    \* local variable vhd_path of _export_vhd
    output,     \* the dictionary _internal_run returned (<<>> before)
    error       \* the step whose exception left _internal_run ("" if none)

exportVars == <<clock, blobs, nOther, power, sas, envNodes, rb, pc, node, calls,
                attempts, listing, path, sasUrl, vhdPath, output, error>>

\* The shared resources the pipelines ensure, and the invocations ensuring
\* them (section "Ensuring shared resources")
VARIABLES
    store,        \* the backing service: identity of each shared resource
    created,      \* creations the backing service carried out, per resource
    plan,         \* the ensure calls each invocation makes, in order
    epos,         \* index in plan of the ensure call the invocation is in
    ephase,       \* position inside that ensure call
    results,      \* what the invocation's completed ensure calls returned
    createCalls   \* the resources the invocation sent a create call for

ensVars == <<store, created, plan, epos, ephase, results, createCalls>>

\* A run of SharedGalleryImageTransformer._internal_run and what it acts on
\* (section "The publication run")
VARIABLES
    sigRb,        \* the runbook (SigTransformerSchema) of the run
    sigPc,        \* position of the run
    sigCalls,     \* the remote calls the run issued, in order
    sigLocals,    \* the local variables of _internal_run
    sigOutput,    \* the dictionary _internal_run returned (<<>> before)
    sigError,     \* the step whose exception left _internal_run ("" if none)
    vmEnv,        \* environment.nodes.list() of runbook.vm_resource_group
    vmState,      \* power state of that VM and whether it is generalized
    sourceBlob,   \* whether the blob check_blob_exist looks for exists
    versions      \* image versions the gallery image definition holds

sigVars == <<sigRb, sigPc, sigCalls, sigLocals, sigOutput, sigError,
             vmEnv, vmState, sourceBlob, versions>>

\* The blocking waits of an export run, polled (section "The waits of an
\* export run")
VARIABLES
    ended,        \* the waits whose operation or copy reached a terminal state
    wphase        \* where the polling loop of the wait stands: "poll" or "sleep"

waitVars == <<ended, wphase>>

\* no wait is being polled
WaitIdle == ended = {} /\ wphase = "poll"

\* A run of DeleteTransformer._internal_run, alone or after a run of
\* DeployTransformer._internal_run (section "Deploy and delete")
VARIABLES
    groups,       \* the resource groups that exist
    delRb,        \* the runbook (DeleteTransformerSchema) of the delete run
    delPc,        \* position of the run
    delEnv,       \* the local variable environment of the delete run
    delCalls,     \* the environments passed to platform.delete_environment
    delOutput,    \* <<d>> once _internal_run returned the dictionary d
    delError      \* what made _internal_run raise ("" if nothing)

delVars == <<groups, delRb, delPc, delEnv, delCalls, delOutput, delError>>

\* no deploy or delete run is under way
DeleteIdle ==
    /\ groups = {}
    /\ delRb = [resource_group_name |-> ""]
    /\ delPc = "idle"
    /\ delEnv = <<>>
    /\ delCalls = <<>>
    /\ delOutput = <<>>
    /\ delError = ""

\* One call of a procedure of the test suites: a patch workflow of the
\* Linux patch extension, Installer.do_installation or
\* DependencyInstaller.install_required_packages of the DPDK suite
\* (section "Procedures of the test suites")
VARIABLES
    suiteProc,    \* the procedure called ("idle" if none)
    suiteIn,      \* what the call is given: its arguments and the node's state
    suitePc,      \* position of the call; "returned" or "raised" at its end
    suiteIdx,     \* index of the requirement a loop over requirements is at
    suiteLog,     \* what the call did on the node or asked of the provider
    suiteRaised   \* <<e>> once the call raised the exception e

suiteVars == <<suiteProc, suiteIn, suitePc, suiteIdx, suiteLog, suiteRaised>>

\* no procedure of the test suites is called
SuiteIdle ==
    /\ suiteProc = "idle"
    /\ suiteIn = <<>>
    /\ suitePc = "idle"
    /\ suiteIdx = 1
    /\ suiteLog = <<>>
    /\ suiteRaised = <<>>

\* what the steps of an export run leave alone
outsideExport == <<ensVars, sigVars, waitVars, delVars, suiteVars>>

vars == <<exportVars, ensVars, sigVars, waitVars, delVars, suiteVars>>

---------------------------------------------------------------------------
(* Bounds of the model *)

NRuns == 2
MaxClock == 1
MaxOtherBlobs == 1

\* the longest list of requirements given to install_required_packages
MaxReqs == 3

Runs == 1..NRuns

VmName(i) == "vm" \o ToString(i)

VmNames == {VmName(i) : i \in Runs}

\* environments a resource group may hold: none, or one node per name
EnvChoices == {<<>>, [i \in Runs |-> VmName(i)]}

\* runbook.vm_name: unset, the last node, a name no node has
VmNameChoices == {"", VmName(NRuns), "vmX"}

\* runbook.file_name_part, as characters ("centos79" stands for any name
\* without a path separator)
FileNameParts ==
    { <<>>,
      <<"centos79">>,
      <<"a", "/", "b">>,
      <<"a", "/", "/", "b">>,
      <<"a", "/", ".", "/", "b">> }

\* runbook.custom_blob_name, as characters ("image.vhd" stands for any name
\* without a path separator)
CustomBlobNames == { <<>>, <<"image.vhd">>, <<"a", "/", "/", "image.vhd">> }

---------------------------------------------------------------------------
(* Program constants *)

DEFAULT_VHD_SUFFIX == "exported"

ContainerUrl == "https://account.blob/lisa-vhd-exported"

ResourceGroup == "rg1"

\* (mutant) a grant of one hour
GrantDurationHour == 60 * 60

\* GrantAccessData(access="Read", duration_in_seconds=86400)
GrantDuration == 86400

OsDiskName(vm) == vm \o "_osdisk"

---------------------------------------------------------------------------
(* Strings and paths *)

\* get_date_str(): the date of the clock reading (two ticks to a day)
DateStr(t) == "date" \o ToString(t \div 2)

\* get_datetime_path(): the clock reading to its full resolution
DatetimePath(t) == "time" \o ToString(t)

\* (mutant) the f-string without the file name part
PathStringNoHint(t, file_name_part) ==
    <<DateStr(t), "/", DatetimePath(t), "_", DEFAULT_VHD_SUFFIX, "_", ".vhd">>

\* the f-string of _generate_vhd_path
PathString(t, file_name_part) ==
    <<DateStr(t), "/", DatetimePath(t), "_", DEFAULT_VHD_SUFFIX, "_">>
        \o file_name_part \o <<".vhd">>

\* str.split("/") as PurePosixPath does it: the components between separators
RECURSIVE SplitParts(_, _, _)
SplitParts(s, i, cur) ==
    IF i > Len(s) THEN <<cur>>
    ELSE IF s[i] = "/" THEN <<cur>> \o SplitParts(s, i + 1, <<>>)
    ELSE SplitParts(s, i + 1, Append(cur, s[i]))

IsDropped(part) == part = <<>> \/ part = <<".">>

\* PurePosixPath(s).parts for a relative s: empty and "." components vanish
PurePosixPath(s) ==
    SelectSeq(SplitParts(s, 1, <<>>), LAMBDA p : ~IsDropped(p))

\* str(PurePosixPath): the parts joined by "/"
RECURSIVE JoinParts(_)
JoinParts(parts) ==
    IF parts = <<>> THEN <<".">>
    ELSE IF Len(parts) = 1 THEN parts[1]
    ELSE parts[1] \o <<"/">> \o JoinParts(Tail(parts))

\* the path _generate_vhd_path builds at clock reading t
VhdPathOf(t, file_name_part) ==
    JoinParts(PurePosixPath(PathString(t, file_name_part)))

IsPrefix(p, s) == Len(p) <= Len(s) /\ SubSeq(s, 1, Len(p)) = p

\* container_client.list_blobs(name_starts_with=prefix)
ListBlobs(bs, prefix) == {b \in bs : IsPrefix(prefix, b)}

\* (mutant) the listing is never looked at
BlobExistsNever(found) == FALSE

\* "for _ in blobs: raise"
BlobExists(found) == found # {}

\* @retry(tries=10, ...)
Tries == 10

\* (mutant) one attempt too many
ShouldRetryOnceMore(made) == made <= Tries

\* the retry decorator: after a failed attempt, is another one made?
ShouldRetry(made) == made < Tries

---------------------------------------------------------------------------
(* Control flow of _internal_run, _prepare_virtual_machine, _export_vhd and
   _restore_vm *)

\* (mutant) the VM is started whatever the runbook says
ShouldStartAlways(runbook) == TRUE

\* "if runbook.restore:" of _restore_vm
ShouldStart(runbook) == runbook.restore

\* (mutant) the custom blob name is never looked at
UseCustomBlobNameNever(runbook) == FALSE

\* "if runbook.custom_blob_name:" of _export_vhd
UseCustomBlobName(runbook) == runbook.custom_blob_name # <<>>

\* (mutant) _prepare_virtual_machine returns after the deprovision
PrepareFlowSkipStop(step) == "get_vm"

\* _prepare_virtual_machine: deprovision, then stop, then back to _internal_run
PrepareFlow(step) ==
    IF step = "deprovision" THEN "stop" ELSE "get_vm"

\* (mutant) the container is ensured before the storage account
ExportFlowContainerFirst(step, runbook) ==
    CASE step = "begin_grant_access" -> "wait_grant"
      [] step = "wait_grant"         -> "ensure_container"
      [] step = "ensure_container"   -> "ensure_account"
      [] step = "ensure_account"     -> "select_path"
      [] step = "select_path"        ->
            IF runbook.custom_blob_name # <<>> THEN "start_copy"
            ELSE "generate_vhd_path"
      [] step = "generate_vhd_path"  -> "start_copy"
      [] step = "start_copy"         -> "wait_copy"
      [] step = "wait_copy"          -> "begin_revoke_access"

\* _export_vhd, up to its return to _internal_run
ExportFlow(step, runbook) ==
    CASE step = "begin_grant_access" -> "wait_grant"
      [] step = "wait_grant"         -> "ensure_account"
      [] step = "ensure_account"     -> "ensure_container"
      [] step = "ensure_container"   -> "select_path"
      [] step = "select_path"        ->
            IF UseCustomBlobName(runbook) THEN "start_copy"
            ELSE "generate_vhd_path"
      [] step = "generate_vhd_path"  -> "start_copy"
      [] step = "start_copy"         -> "wait_copy"
      [] step = "wait_copy"          -> "begin_revoke_access"

\* _restore_vm, up to its return to _internal_run
RestoreFlow(step, runbook) ==
    CASE step = "begin_revoke_access" -> "wait_revoke"
      [] step = "wait_revoke"         ->
            IF ShouldStart(runbook) THEN "start" ELSE "return"
      [] step = "start"               -> "return"

PrepareSteps == {"deprovision", "stop"}

ExportSteps ==
    {"begin_grant_access", "wait_grant", "ensure_account", "ensure_container",
     "select_path", "generate_vhd_path", "start_copy", "wait_copy"}

RestoreSteps == {"begin_revoke_access", "wait_revoke", "start"}

\* _internal_run: the position reached when the step returns normally
Continue(step, runbook) ==
    CASE step = "load_platform"    -> "load_environment"
      [] step = "load_environment" -> "resolve_node"
      [] step = "resolve_node"     -> "deprovision"
      [] step \in PrepareSteps     -> PrepareFlow(step)
      [] step = "get_vm"           -> "begin_grant_access"
      [] step \in ExportSteps      -> ExportFlow(step, runbook)
      [] step \in RestoreSteps     -> RestoreFlow(step, runbook)
      [] step = "return"           -> "done"

\* (mutant) a failed stop is caught and the run goes on
OnRaiseContinue(step) == IF step = "stop" THEN "get_vm" ELSE "failed"

\* the position reached when the step raises: no step of the run is inside
\* a try block, so every exception leaves _internal_run
OnRaise(step) == "failed"

\* (mutant) the name filter is left out: the first node is taken
CandidatesUnfiltered(nodes, vm_name) == nodes

\* "next(x for x in nodes if x.name == vm_name)" / "next(x for x in nodes)":
\* the nodes the generator yields; next() takes the first, or raises
Candidates(nodes, vm_name) ==
    IF vm_name # "" THEN SelectSeq(nodes, LAMBDA x : x = vm_name) ELSE nodes

\* f"{container_client.url}/{path}"
VhdUrl(p) == <<ContainerUrl, "/">> \o p

\* (mutant) the blob client is taken for the url instead of the path
BlobNameIsUrl(p) == VhdUrl(p)

\* container_client.get_blob_client(path): the blob the copy is written to
BlobName(p) == p

Call(op, arg, ok) == [op |-> op, arg |-> arg, ok |-> ok]

Ops(r) == {calls[r][i].op : i \in 1..Len(calls[r])}

OkOps(r) == {calls[r][i].op : i \in {j \in 1..Len(calls[r]) : calls[r][j].ok}}

Count(r, op) == Cardinality({i \in 1..Len(calls[r]) : calls[r][i].op = op})

---------------------------------------------------------------------------
(* The steps of one run *)

Log(r, c) == calls' = [calls EXCEPT ![r] = Append(@, c)]

\* the step returns (ok) or raises
Advance(r, step, ok) ==
    /\ pc' = [pc EXCEPT ![r] = IF ok THEN Continue(step, rb[r]) ELSE OnRaise(step)]
    /\ error' = [error EXCEPT ![r] = IF ok THEN @ ELSE step]

\* _load_platform: platform.initialize()
LoadPlatform(r) ==
    /\ pc[r] = "load_platform"
    /\ \E ok \in BOOLEAN :
        /\ Log(r, Call("initialize", <<>>, ok))
        /\ Advance(r, "load_platform", ok)
    /\ UNCHANGED <<clock, blobs, nOther, power, sas, envNodes, rb, node,
                   attempts, listing, path, sasUrl, vhdPath, output>>
    /\ UNCHANGED outsideExport

\* load_environment(platform, runbook.resource_group_name, ...)
LoadEnvironment(r) ==
    /\ pc[r] = "load_environment"
    /\ \E ok \in BOOLEAN :
        /\ Log(r, Call("load_environment", <<rb[r].resource_group_name>>, ok))
        /\ Advance(r, "load_environment", ok)
    /\ UNCHANGED <<clock, blobs, nOther, power, sas, envNodes, rb, node,
                   attempts, listing, path, sasUrl, vhdPath, output>>
    /\ UNCHANGED outsideExport

\* node = next(...): StopIteration when the generator yields nothing
ResolveNode(r) ==
    /\ pc[r] = "resolve_node"
    /\ LET found == Candidates(envNodes, rb[r].vm_name) IN
        /\ node' = [node EXCEPT ![r] = IF found = <<>> THEN @ ELSE Head(found)]
        /\ Advance(r, "resolve_node", found # <<>>)
    /\ UNCHANGED <<clock, blobs, nOther, power, sas, envNodes, rb, calls,
                   attempts, listing, path, sasUrl, vhdPath, output>>
    /\ UNCHANGED outsideExport

\* _prepare_virtual_machine: wa.deprovision()
Deprovision(r) ==
    /\ pc[r] = "deprovision"
    /\ \E ok \in BOOLEAN :
        /\ Log(r, Call("deprovision", <<node[r]>>, ok))
        /\ Advance(r, "deprovision", ok)
    /\ UNCHANGED <<clock, blobs, nOther, power, sas, envNodes, rb, node,
                   attempts, listing, path, sasUrl, vhdPath, output>>
    /\ UNCHANGED outsideExport

\* _prepare_virtual_machine: startstop.stop()
Stop(r) ==
    /\ pc[r] = "stop"
    /\ \E ok \in BOOLEAN :
        /\ Log(r, Call("stop", <<node[r]>>, ok))
        /\ power' = IF ok THEN [power EXCEPT ![node[r]] = "stopped"] ELSE power
        /\ Advance(r, "stop", ok)
    /\ UNCHANGED <<clock, blobs, nOther, sas, envNodes, rb, node,
                   attempts, listing, path, sasUrl, vhdPath, output>>
    /\ UNCHANGED outsideExport

\* virtual_machine = get_vm(platform, node)
GetVm(r) ==
    /\ pc[r] = "get_vm"
    /\ \E ok \in BOOLEAN :
        /\ Log(r, Call("get_vm", <<node[r]>>, ok))
        /\ Advance(r, "get_vm", ok)
    /\ UNCHANGED <<clock, blobs, nOther, power, sas, envNodes, rb, node,
                   attempts, listing, path, sasUrl, vhdPath, output>>
    /\ UNCHANGED outsideExport

\* compute_client.disks.begin_grant_access(...)
BeginGrantAccess(r) ==
    /\ pc[r] = "begin_grant_access"
    /\ \E ok \in BOOLEAN :
        /\ Log(r, Call("begin_grant_access",
                       <<rb[r].resource_group_name, OsDiskName(node[r]),
                         "Read", ToString(GrantDuration)>>, ok))
        /\ Advance(r, "begin_grant_access", ok)
    /\ UNCHANGED <<clock, blobs, nOther, power, sas, envNodes, rb, node,
                   attempts, listing, path, sasUrl, vhdPath, output>>
    /\ UNCHANGED outsideExport

\* wait_operation(operation); sas_url = operation.result().access_sas;
\* assert sas_url.  The operation fails, or completes with or without a url.
WaitGrant(r) ==
    /\ pc[r] = "wait_grant"
    /\ \E res \in {"raise", "empty", "url"} :
        /\ Log(r, Call("wait_operation_grant", <<OsDiskName(node[r])>>, res # "raise"))
        /\ sas' = IF res = "raise" THEN sas ELSE [sas EXCEPT ![node[r]] = TRUE]
        /\ sasUrl' = [sasUrl EXCEPT ![r] =
                        IF res = "url" THEN <<"sas", OsDiskName(node[r])>> ELSE @]
        /\ Advance(r, "wait_grant", res = "url")
    /\ UNCHANGED <<clock, blobs, nOther, power, envNodes, rb, node,
                   attempts, listing, path, vhdPath, output>>
    /\ UNCHANGED outsideExport

\* check_or_create_storage_account(...)
EnsureAccount(r) ==
    /\ pc[r] = "ensure_account"
    /\ \E ok \in BOOLEAN :
        /\ Log(r, Call("check_or_create_storage_account", <<>>, ok))
        /\ Advance(r, "ensure_account", ok)
    /\ UNCHANGED <<clock, blobs, nOther, power, sas, envNodes, rb, node,
                   attempts, listing, path, sasUrl, vhdPath, output>>
    /\ UNCHANGED outsideExport

\* container_client = get_or_create_storage_container(...)
EnsureContainer(r) ==
    /\ pc[r] = "ensure_container"
    /\ \E ok \in BOOLEAN :
        /\ Log(r, Call("get_or_create_storage_container", <<>>, ok))
        /\ Advance(r, "ensure_container", ok)
    /\ UNCHANGED <<clock, blobs, nOther, power, sas, envNodes, rb, node,
                   attempts, listing, path, sasUrl, vhdPath, output>>
    /\ UNCHANGED outsideExport

\* "if runbook.custom_blob_name: path = runbook.custom_blob_name", else the
\* call of _generate_vhd_path begins
SelectPath(r) ==
    /\ pc[r] = "select_path"
    /\ path' = [path EXCEPT ![r] =
                  IF UseCustomBlobName(rb[r]) THEN rb[r].custom_blob_name ELSE @]
    /\ Advance(r, "select_path", TRUE)
    /\ UNCHANGED <<clock, blobs, nOther, power, sas, envNodes, rb, node, calls,
                   attempts, listing, sasUrl, vhdPath, output>>
    /\ UNCHANGED outsideExport

\* one call of _generate_vhd_path's body by the retry decorator: build the
\* path from the clock, list the blobs under it, raise if one exists, else
\* return the path.  A raise is retried while tries remain and leaves the
\* decorator after the last.
GenerateVhdPath(r) ==
    /\ pc[r] = "generate_vhd_path"
    /\ LET p == VhdPathOf(clock, rb[r].file_name_part)
           made == attempts[r] + 1
           found == ListBlobs(blobs, p)
           raised == BlobExists(found)
       IN /\ attempts' = [attempts EXCEPT ![r] = made]
          /\ listing' = [listing EXCEPT ![r] = [prefix |-> p, found |-> found]]
          /\ Log(r, Call("list_blobs", p, TRUE))
          /\ IF raised /\ ShouldRetry(made)
                THEN UNCHANGED <<pc, error, path>>
                ELSE /\ Advance(r, "generate_vhd_path", ~raised)
                     /\ path' = [path EXCEPT ![r] = IF raised THEN @ ELSE p]
    /\ UNCHANGED <<clock, blobs, nOther, power, sas, envNodes, rb, node,
                   sasUrl, vhdPath, output>>
    /\ UNCHANGED outsideExport

\* vhd_path = f"{container_client.url}/{path}";
\* blob_client.start_copy_from_url(sas_url, ...)
StartCopy(r) ==
    /\ pc[r] = "start_copy"
    /\ vhdPath' = [vhdPath EXCEPT ![r] = VhdUrl(path[r])]
    /\ \E ok \in BOOLEAN :
        /\ Log(r, Call("start_copy_from_url", BlobName(path[r]), ok))
        /\ blobs' = IF ok THEN blobs \cup {BlobName(path[r])} ELSE blobs
        /\ Advance(r, "start_copy", ok)
    /\ UNCHANGED <<clock, nOther, power, sas, envNodes, rb, node,
                   attempts, listing, path, sasUrl, output>>
    /\ UNCHANGED outsideExport

\* wait_copy_blob(blob_client, vhd_path, log): the copy ends in success, or
\* in a failure that raises
WaitCopy(r) ==
    /\ pc[r] = "wait_copy"
    /\ \E ok \in BOOLEAN :
        /\ Log(r, Call("wait_copy_blob", BlobName(path[r]), ok))
        /\ Advance(r, "wait_copy", ok)
    /\ UNCHANGED <<clock, blobs, nOther, power, sas, envNodes, rb, node,
                   attempts, listing, path, sasUrl, vhdPath, output>>
    /\ UNCHANGED outsideExport

\* _restore_vm: compute_client.disks.begin_revoke_access(...)
BeginRevokeAccess(r) ==
    /\ pc[r] = "begin_revoke_access"
    /\ \E ok \in BOOLEAN :
        /\ Log(r, Call("begin_revoke_access",
                       <<rb[r].resource_group_name, OsDiskName(node[r])>>, ok))
        /\ Advance(r, "begin_revoke_access", ok)
    /\ UNCHANGED <<clock, blobs, nOther, power, sas, envNodes, rb, node,
                   attempts, listing, path, sasUrl, vhdPath, output>>
    /\ UNCHANGED outsideExport

\* _restore_vm: wait_operation(operation)
WaitRevoke(r) ==
    /\ pc[r] = "wait_revoke"
    /\ \E ok \in BOOLEAN :
        /\ Log(r, Call("wait_operation_revoke", <<OsDiskName(node[r])>>, ok))
        /\ sas' = IF ok THEN [sas EXCEPT ![node[r]] = FALSE] ELSE sas
        /\ Advance(r, "wait_revoke", ok)
    /\ UNCHANGED <<clock, blobs, nOther, power, envNodes, rb, node,
                   attempts, listing, path, sasUrl, vhdPath, output>>
    /\ UNCHANGED outsideExport

\* _restore_vm: start_stop.start()
Start(r) ==
    /\ pc[r] = "start"
    /\ \E ok \in BOOLEAN :
        /\ Log(r, Call("start", <<node[r]>>, ok))
        /\ power' = IF ok THEN [power EXCEPT ![node[r]] = "running"] ELSE power
        /\ Advance(r, "start", ok)
    /\ UNCHANGED <<clock, blobs, nOther, sas, envNodes, rb, node,
                   attempts, listing, path, sasUrl, vhdPath, output>>
    /\ UNCHANGED outsideExport

\* return {"url": vhd_location}
Return(r) ==
    /\ pc[r] = "return"
    /\ output' = [output EXCEPT ![r] = vhdPath[r]]
    /\ Advance(r, "return", TRUE)
    /\ UNCHANGED <<clock, blobs, nOther, power, sas, envNodes, rb, node, calls,
                   attempts, listing, path, sasUrl, vhdPath>>
    /\ UNCHANGED outsideExport

---------------------------------------------------------------------------
(* The environment *)

\* time passes between two readings of the clock
Tick ==
    /\ clock < MaxClock
    /\ clock' = clock + 1
    /\ UNCHANGED <<blobs, nOther, power, sas, envNodes, rb, pc, node, calls,
                   attempts, listing, path, sasUrl, vhdPath, output, error>>
    /\ UNCHANGED outsideExport

\* an export outside the modelled runs starts its copy into the container,
\* at the path it generated from the current clock
OtherExport ==
    /\ nOther < MaxOtherBlobs
    /\ \E h \in FileNameParts :
        blobs' = blobs \cup {BlobName(VhdPathOf(clock, h))}
    /\ nOther' = nOther + 1
    /\ UNCHANGED <<clock, power, sas, envNodes, rb, pc, node, calls,
                   attempts, listing, path, sasUrl, vhdPath, output, error>>
    /\ UNCHANGED outsideExport

RunStep(r) ==
    \/ LoadPlatform(r)
    \/ LoadEnvironment(r)
    \/ ResolveNode(r)
    \/ Deprovision(r)
    \/ Stop(r)
    \/ GetVm(r)
    \/ BeginGrantAccess(r)
    \/ WaitGrant(r)
    \/ EnsureAccount(r)
    \/ EnsureContainer(r)
    \/ SelectPath(r)
    \/ GenerateVhdPath(r)
    \/ StartCopy(r)
    \/ WaitCopy(r)
    \/ BeginRevokeAccess(r)
    \/ WaitRevoke(r)
    \/ Start(r)
    \/ Return(r)

---------------------------------------------------------------------------
(* Ensuring shared resources.

   The pipelines ensure their shared resources through the check_or_create_
   and get_or_create_ functions of the azure package.  An invocation makes
   the ensure calls of its pipeline in the order of the code (those of the
   export twice over: the export is run, then run again with the same
   runbook).  One ensure
   call is a read of the resource, a create when the read found nothing,
   and a second read when the create lost against another creator; the
   read, the create and the second read are separate requests to the
   backing service, so requests of concurrent invocations interleave. *)

\* _export_vhd: check_or_create_storage_account, get_or_create_storage_container
ExportPlan == <<"storage_account", "container">>

\* SharedGalleryImageTransformer._internal_run: check_or_create_resource_group,
\* check_or_create_gallery, check_or_create_gallery_image
SigPlan == <<"resource_group", "gallery", "image_definition">>

\* two export runs in sequence; one publication run
Plans == {ExportPlan \o ExportPlan, SigPlan}

SharedResources == {"storage_account", "container",
                    "resource_group", "gallery", "image_definition"}

Absent == "absent"

\* the resource was provisioned before any of the invocations
Standing == "standing"

\* identity of the resource the backing service creates for invocation c
CreatedBy(c) == "created" \o ToString(c)

\* (mutant) the read is not consulted: the create is always sent
NeedsCreateAlways(found) == TRUE

\* ensure, steps (2) and (3): create exactly when the read found nothing
NeedsCreate(found) == found = Absent

\* (mutant) a create that meets "already exists" fails the ensure
OnAlreadyExistsFail == "failed"

\* ensure, step (4): a create that meets "already exists" reads again
OnAlreadyExists == "reread"

Target(c) == plan[c][epos[c]]

\* the ensure call returns x: the invocation goes on to its next call
EnsureReturn(c, x) ==
    /\ results' = [results EXCEPT ![c] = Append(@, x)]
    /\ epos' = [epos EXCEPT ![c] = @ + 1]
    /\ ephase' = [ephase EXCEPT ![c] =
                    IF epos[c] = Len(plan[c]) THEN "done" ELSE "read"]

EnsureRead(c) ==
    /\ ephase[c] = "read"
    /\ IF NeedsCreate(store[Target(c)])
       THEN /\ ephase' = [ephase EXCEPT ![c] = "create"]
            /\ UNCHANGED <<results, epos>>
       ELSE EnsureReturn(c, store[Target(c)])
    /\ UNCHANGED <<store, created, plan, createCalls, exportVars, sigVars, waitVars, delVars, suiteVars>>

EnsureCreate(c) ==
    /\ ephase[c] = "create"
    /\ createCalls' = [createCalls EXCEPT ![c] = Append(@, Target(c))]
    /\ IF store[Target(c)] = Absent
       THEN /\ store' = [store EXCEPT ![Target(c)] = CreatedBy(c)]
            /\ created' = [created EXCEPT ![Target(c)] = @ + 1]
            /\ EnsureReturn(c, CreatedBy(c))
       ELSE /\ ephase' = [ephase EXCEPT ![c] = OnAlreadyExists]
            /\ UNCHANGED <<store, created, results, epos>>
    /\ UNCHANGED <<plan, exportVars, sigVars, waitVars, delVars, suiteVars>>

EnsureReread(c) ==
    /\ ephase[c] = "reread"
    /\ IF store[Target(c)] = Absent
       THEN /\ ephase' = [ephase EXCEPT ![c] = "failed"]
            /\ UNCHANGED <<results, epos>>
       ELSE EnsureReturn(c, store[Target(c)])
    /\ UNCHANGED <<store, created, plan, createCalls, exportVars, sigVars, waitVars, delVars, suiteVars>>

\* no invocation is ensuring anything (the state of the other specifications)
EnsureIdle ==
    /\ store = [x \in SharedResources |-> Absent]
    /\ created = [x \in SharedResources |-> 0]
    /\ plan = [c \in Runs |-> <<>>]
    /\ epos = [c \in Runs |-> 0]
    /\ ephase = [c \in Runs |-> "idle"]
    /\ results = [c \in Runs |-> <<>>]
    /\ createCalls = [c \in Runs |-> <<>>]

---------------------------------------------------------------------------
(* The publication run: SharedGalleryImageTransformer._internal_run.

   runbook.gallery_image_fullname is a sequence of characters (" " is the
   space; every other element, such as "Microsoft", stands for a run of
   characters without white space), so that str.split() is computed. *)

\* runbook.gallery_image_fullname
FullNames ==
    { <<"Microsoft", " ", "Linux", " ", "arm64", " ", "0.0.1">>,
      <<" ", "Microsoft", " ", " ", "Linux", " ", "arm64", " ", "0.0.1", " ">>,
      <<"Open", "Logic", " ", "Rocky", " ", "x64", " ", "9.1">>,
      <<"Microsoft", " ", "Linux", " ", "0.0.1">>,
      <<"Microsoft", " ", "Linux", " ", "arm64", " ", "gen2", " ", "0.0.1">>,
      <<>> }

SigRunbooks ==
    [ vhd : {"https://sa.blob/vhds/image.vhd"},
      vm_resource_group : {"", "vmrg"},
      gallery_resource_group_name : {"galleryrg"},
      gallery_resource_group_location : {"", "eastus"},
      gallery_name : {"lisa_default_gallery"},
      gallery_location : {"", "centralus"},
      gallery_image_location : {<<"westus3", "westus2">>},
      gallery_image_name : {"image1"},
      gallery_image_fullname : FullNames ]

\* (mutant) str.split(" "): every single space separates, empty fields stay
RECURSIVE SplitEverySpace(_, _, _)
SplitEverySpace(s, i, cur) ==
    IF i > Len(s) THEN <<cur>>
    ELSE IF s[i] = " " THEN <<cur>> \o SplitEverySpace(s, i + 1, <<>>)
    ELSE SplitEverySpace(s, i + 1, Append(cur, s[i]))

\* str.split(): the fields of s from position i on, cur being the field
\* read so far; runs of white space separate, no field is empty
RECURSIVE Split(_, _, _)
Split(s, i, cur) ==
    IF i > Len(s) THEN (IF cur = <<>> THEN <<>> ELSE <<cur>>)
    ELSE IF s[i] = " "
         THEN (IF cur = <<>> THEN <<>> ELSE <<cur>>) \o Split(s, i + 1, <<>>)
         ELSE Split(s, i + 1, Append(cur, s[i]))

\* the tuple assignment of lines 508-513 raises unless there are four fields
FullNameFields == 4

Unpacks(fields) == Len(fields) = FullNameFields

\* vm.properties["osDisk"].managed_disk.id
ManagedDiskId(vm) == <<"/disks/", OsDiskName(vm)>>

\* what get_deployable_vhd_path returns for a vhd and a location
DeployableVhdPath(vhd, location) == <<"deployable", vhd, location>>

\* (mutant) the legacy controller only
DiskControllerTypeLegacy(runbook) == "SCSI"

\* lines 572-575
DiskControllerType(runbook) ==
    IF runbook.vm_resource_group # "" THEN "SCSI,NVMe" ELSE "SCSI"

\* (mutant) the missing blob is not acted on
SourceMissingIgnored(found) == FALSE

\* "if not check_blob_exist(...): raise LisaException"
SourceMissing(found) == ~found

\* (mutant) gallery and image definition change places
SigUrlSwapped(runbook, version) ==
    <<runbook.gallery_image_name, "/", runbook.gallery_name, "/">> \o version

\* sig_url, lines 609-613
SigUrl(runbook, version) ==
    <<runbook.gallery_name, "/", runbook.gallery_image_name, "/">> \o version

\* (mutant) the VM is stopped and left as it is
VmSourceFlowNoGeneralize(step) ==
    CASE step = "load_environment" -> "first_node"
      [] step = "first_node"       -> "get_vm"
      [] step = "get_vm"           -> "stop"
      [] step = "stop"             -> "get_vhd_details"
      [] step = "generalize"       -> "get_vhd_details"

\* (mutant) the VM is generalized before it is stopped
VmSourceFlowGeneralizeFirst(step) ==
    CASE step = "load_environment" -> "first_node"
      [] step = "first_node"       -> "get_vm"
      [] step = "get_vm"           -> "generalize"
      [] step = "generalize"       -> "stop"
      [] step = "stop"             -> "get_vhd_details"

\* lines 520-541: the source is a VM
VmSourceFlow(step) ==
    CASE step = "load_environment" -> "first_node"
      [] step = "first_node"       -> "get_vm"
      [] step = "get_vm"           -> "stop"
      [] step = "stop"             -> "generalize"
      [] step = "generalize"       -> "get_vhd_details"

VmSourceSteps == {"load_environment", "first_node", "get_vm", "stop", "generalize"}

\* the step after a step that returned, lines 503-616
SigContinue(step, runbook) ==
    CASE step = "load_platform" -> "parse"
      [] step = "parse" ->
            IF runbook.vm_resource_group # ""
            THEN "load_environment" ELSE "get_deployable_vhd_path"
      [] step \in VmSourceSteps -> VmSourceFlow(step)
      [] step = "get_deployable_vhd_path" -> "get_vhd_details"
      [] step = "get_vhd_details" -> "check_blob_exist"
      [] step = "check_blob_exist" -> "check_or_create_resource_group"
      [] step = "check_or_create_resource_group" -> "check_or_create_gallery"
      [] step = "check_or_create_gallery" -> "check_or_create_gallery_image"
      [] step = "check_or_create_gallery_image" ->
            "check_or_create_gallery_image_version_from_vhd"
      [] step = "check_or_create_gallery_image_version_from_vhd" -> "return"
      [] step = "return" -> "done"

\* (mutant) a failed creation of the image version is passed over
SigOnRaiseVersionIgnored(step) ==
    IF step = "check_or_create_gallery_image_version_from_vhd"
    THEN "return" ELSE "failed"

\* no step of the run is inside a try block
SigOnRaise(step) == "failed"

\* creation of an image version whose name the image definition already
\* holds is refused by the service
VersionRefused(held, version) == version \in held

SigOps == {sigCalls[i].op : i \in 1..Len(sigCalls)}

SigOkOps == {sigCalls[i].op : i \in {j \in 1..Len(sigCalls) : sigCalls[j].ok}}

\* positions of the calls of op in the log
SigAt(op) == {i \in 1..Len(sigCalls) : sigCalls[i].op = op}

SigLog(c) == sigCalls' = Append(sigCalls, c)

SigAdvance(step, ok) ==
    /\ sigPc' = IF ok THEN SigContinue(step, sigRb) ELSE SigOnRaise(step)
    /\ sigError' = IF ok THEN sigError ELSE step

\* a step that is one remote call, returning or raising
SigCall(step, arg) ==
    /\ sigPc = step
    /\ \E ok \in BOOLEAN :
        /\ SigLog(Call(step, arg, ok))
        /\ SigAdvance(step, ok)

\* line 505: _load_platform, platform.initialize()
SigLoadPlatform ==
    /\ SigCall("load_platform", <<>>)
    /\ UNCHANGED <<sigRb, sigLocals, sigOutput, vmEnv, vmState, sourceBlob,
                   versions, exportVars, ensVars, waitVars, delVars, suiteVars>>

\* lines 506-518: the image location, the fields of gallery_image_fullname,
\* the defaults of the two gallery locations
SigParse ==
    /\ sigPc = "parse"
    /\ LET image_location == sigRb.gallery_image_location[1]
           fields == Split(sigRb.gallery_image_fullname, 1, <<>>)
       IN IF Unpacks(fields)
          THEN /\ sigLocals' = [sigLocals EXCEPT !.image_location = image_location,
                                                  !.fullname = fields]
               /\ sigRb' = [sigRb EXCEPT
                     !.gallery_resource_group_location =
                         IF @ = "" THEN image_location ELSE @,
                     !.gallery_location =
                         IF @ = "" THEN image_location ELSE @]
               /\ SigAdvance("parse", TRUE)
          ELSE /\ sigLocals' = [sigLocals EXCEPT !.image_location = image_location]
               /\ SigAdvance("parse", FALSE)
               /\ UNCHANGED sigRb
    /\ UNCHANGED <<sigCalls, sigOutput, vmEnv, vmState, sourceBlob, versions,
                   exportVars, ensVars, waitVars, delVars, suiteVars>>

\* lines 520-525
SigLoadEnvironment ==
    /\ SigCall("load_environment", <<sigRb.vm_resource_group>>)
    /\ UNCHANGED <<sigRb, sigLocals, sigOutput, vmEnv, vmState, sourceBlob,
                   versions, exportVars, ensVars, waitVars, delVars, suiteVars>>

\* line 526: list(environment.nodes.list())[0], IndexError without a node
SigFirstNode ==
    /\ sigPc = "first_node"
    /\ sigLocals' = [sigLocals EXCEPT !.node =
                        IF vmEnv = <<>> THEN @ ELSE vmEnv[1]]
    /\ SigAdvance("first_node", vmEnv # <<>>)
    /\ UNCHANGED <<sigRb, sigCalls, sigOutput, vmEnv, vmState, sourceBlob,
                   versions, exportVars, ensVars, waitVars, delVars, suiteVars>>

\* line 528
SigGetVm ==
    /\ SigCall("get_vm", <<sigLocals.node>>)
    /\ UNCHANGED <<sigRb, sigLocals, sigOutput, vmEnv, vmState, sourceBlob,
                   versions, exportVars, ensVars, waitVars, delVars, suiteVars>>

\* line 534: node.features[StartStop].stop()
SigStop ==
    /\ SigCall("stop", <<sigLocals.node>>)
    /\ vmState' = IF sigPc' # "failed"
                  THEN [vmState EXCEPT !.power = "stopped"] ELSE vmState
    /\ UNCHANGED <<sigRb, sigLocals, sigOutput, vmEnv, sourceBlob,
                   versions, exportVars, ensVars, waitVars, delVars, suiteVars>>

\* lines 537-541: virtual_machines.generalize, then the OS disk's id
SigGeneralize ==
    /\ SigCall("generalize", <<sigRb.vm_resource_group, sigLocals.node>>)
    /\ IF sigPc' # "failed"
       THEN /\ vmState' = [vmState EXCEPT !.generalized = TRUE]
            /\ sigLocals' = [sigLocals EXCEPT
                                !.vhd_path = ManagedDiskId(sigLocals.node)]
       ELSE UNCHANGED <<vmState, sigLocals>>
    /\ UNCHANGED <<sigRb, sigOutput, vmEnv, sourceBlob,
                   versions, exportVars, ensVars, waitVars, delVars, suiteVars>>

\* lines 543-545
SigGetDeployableVhdPath ==
    /\ SigCall("get_deployable_vhd_path", <<sigRb.vhd, sigLocals.image_location>>)
    /\ sigLocals' = IF sigPc' # "failed"
                    THEN [sigLocals EXCEPT !.vhd_path =
                            DeployableVhdPath(sigRb.vhd, sigLocals.image_location)]
                    ELSE sigLocals
    /\ UNCHANGED <<sigRb, sigOutput, vmEnv, vmState, sourceBlob,
                   versions, exportVars, ensVars, waitVars, delVars, suiteVars>>

\* line 546
SigGetVhdDetails ==
    /\ SigCall("get_vhd_details", sigLocals.vhd_path)
    /\ UNCHANGED <<sigRb, sigLocals, sigOutput, vmEnv, vmState, sourceBlob,
                   versions, exportVars, ensVars, waitVars, delVars, suiteVars>>

\* lines 547-554: check_blob_exist raises, or returns whether the blob
\* exists; LisaException when it does not
SigCheckBlobExist ==
    /\ sigPc = "check_blob_exist"
    /\ \E ok \in BOOLEAN :
        /\ SigLog(Call("check_blob_exist", sigLocals.vhd_path, ok))
        /\ SigAdvance("check_blob_exist", ok /\ ~SourceMissing(sourceBlob))
    /\ UNCHANGED <<sigRb, sigLocals, sigOutput, vmEnv, vmState, sourceBlob,
                   versions, exportVars, ensVars, waitVars, delVars, suiteVars>>

\* lines 557-564
SigEnsureResourceGroup ==
    /\ SigCall("check_or_create_resource_group",
               [ resource_group_name |-> sigRb.gallery_resource_group_name,
                 location |-> sigRb.gallery_location ])
    /\ UNCHANGED <<sigRb, sigLocals, sigOutput, vmEnv, vmState, sourceBlob,
                   versions, exportVars, ensVars, waitVars, delVars, suiteVars>>

\* lines 565-571
SigEnsureGallery ==
    /\ SigCall("check_or_create_gallery",
               [ gallery_resource_group_name |-> sigRb.gallery_resource_group_name,
                 gallery_name |-> sigRb.gallery_name,
                 gallery_location |-> sigRb.gallery_location ])
    /\ UNCHANGED <<sigRb, sigLocals, sigOutput, vmEnv, vmState, sourceBlob,
                   versions, exportVars, ensVars, waitVars, delVars, suiteVars>>

\* lines 572-592
SigEnsureImage ==
    /\ SigCall("check_or_create_gallery_image",
               [ gallery_resource_group_name |-> sigRb.gallery_resource_group_name,
                 gallery_name |-> sigRb.gallery_name,
                 gallery_image_name |-> sigRb.gallery_image_name,
                 gallery_image_location |-> sigLocals.image_location,
                 gallery_image_publisher |-> sigLocals.fullname[1],
                 gallery_image_offer |-> sigLocals.fullname[2],
                 gallery_image_sku |-> sigLocals.fullname[3],
                 gallery_image_disk_controller |-> DiskControllerType(sigRb) ])
    /\ UNCHANGED <<sigRb, sigLocals, sigOutput, vmEnv, vmState, sourceBlob,
                   versions, exportVars, ensVars, waitVars, delVars, suiteVars>>

\* lines 593-607: the one request for the image version; the service
\* refuses a version the image definition holds, and otherwise the request
\* succeeds or fails
SigCreateVersion ==
    /\ sigPc = "check_or_create_gallery_image_version_from_vhd"
    /\ \E ok \in BOOLEAN :
        LET accepted == ok /\ ~VersionRefused(versions, sigLocals.fullname[4]) IN
        /\ SigLog(Call("check_or_create_gallery_image_version_from_vhd",
                       [ gallery_resource_group_name |-> sigRb.gallery_resource_group_name,
                         gallery_name |-> sigRb.gallery_name,
                         gallery_image_name |-> sigRb.gallery_image_name,
                         gallery_image_version |-> sigLocals.fullname[4],
                         image_location |-> sigLocals.image_location,
                         vhd_path |-> sigLocals.vhd_path,
                         gallery_image_location |-> sigRb.gallery_image_location ],
                       accepted))
        /\ SigAdvance("check_or_create_gallery_image_version_from_vhd", accepted)
        /\ versions' = IF accepted THEN versions \cup {sigLocals.fullname[4]}
                       ELSE versions
    /\ UNCHANGED <<sigRb, sigLocals, sigOutput, vmEnv, vmState, sourceBlob,
                   exportVars, ensVars, waitVars, delVars, suiteVars>>

\* lines 609-616
SigReturn ==
    /\ sigPc = "return"
    /\ sigOutput' = [url |-> SigUrl(sigRb, sigLocals.fullname[4])]
    /\ SigAdvance("return", TRUE)
    /\ UNCHANGED <<sigRb, sigCalls, sigLocals, vmEnv, vmState, sourceBlob,
                   versions, exportVars, ensVars, waitVars, delVars, suiteVars>>

NoLocals == [image_location |-> "", fullname |-> <<>>, node |-> "", vhd_path |-> <<>>]

\* no publication run is under way (the state of the other specifications)
SigIdle ==
    /\ sigRb = [ vhd |-> "", vm_resource_group |-> "",
                 gallery_resource_group_name |-> "",
                 gallery_resource_group_location |-> "",
                 gallery_name |-> "", gallery_location |-> "",
                 gallery_image_location |-> <<>>, gallery_image_name |-> "",
                 gallery_image_fullname |-> <<>> ]
    /\ sigPc = "idle"
    /\ sigCalls = <<>>
    /\ sigLocals = NoLocals
    /\ sigOutput = <<>>
    /\ sigError = ""
    /\ vmEnv = <<>>
    /\ vmState = [power |-> "running", generalized |-> FALSE]
    /\ sourceBlob = FALSE
    /\ versions = {}

---------------------------------------------------------------------------
(* Spec: one export run, from its construction, beside other exporters *)

Runbooks ==
    [ resource_group_name : {ResourceGroup},
      vm_name : VmNameChoices,
      file_name_part : FileNameParts,
      custom_blob_name : CustomBlobNames,
      restore : BOOLEAN ]

IdleRunbook ==
    [ resource_group_name |-> ResourceGroup, vm_name |-> "",
      file_name_part |-> <<>>, custom_blob_name |-> <<>>, restore |-> FALSE ]

NoListing == [prefix |-> <<>>, found |-> {}]

Init ==
    /\ clock = 0
    /\ blobs = {}
    /\ nOther = 0
    /\ power = [v \in VmNames |-> "running"]
    /\ sas = [v \in VmNames |-> FALSE]
    /\ envNodes \in EnvChoices
    /\ \E b \in Runbooks : rb = [r \in Runs |-> IF r = 1 THEN b ELSE IdleRunbook]
    /\ pc = [r \in Runs |-> IF r = 1 THEN "load_platform" ELSE "idle"]
    /\ node = [r \in Runs |-> ""]
    /\ calls = [r \in Runs |-> <<>>]
    /\ attempts = [r \in Runs |-> 0]
    /\ listing = [r \in Runs |-> NoListing]
    /\ path = [r \in Runs |-> <<>>]
    /\ sasUrl = [r \in Runs |-> <<>>]
    /\ vhdPath = [r \in Runs |-> <<>>]
    /\ output = [r \in Runs |-> <<>>]
    /\ error = [r \in Runs |-> ""]
    /\ EnsureIdle
    /\ SigIdle
    /\ WaitIdle
    /\ DeleteIdle
    /\ SuiteIdle

Next ==
    \/ \E r \in Runs : RunStep(r)
    \/ Tick
    \/ OtherExport

Spec == Init /\ [][Next]_vars

---------------------------------------------------------------------------
(* SpecAlloc: concurrent export runs, one per VM of the resource group, that
   share the container and fall into the same time window (every reading of
   the clock gives the same value).  Each run has come through its own
   prepare, grant and ensure steps and stands at the choice of its
   destination path; its path allocation and the start of its copy are
   interleaved with those of the other runs. *)

\* the calls a run has made when it reaches the choice of its path
PreparedCalls(vm, runbook) ==
    << Call("initialize", <<>>, TRUE),
       Call("load_environment", <<runbook.resource_group_name>>, TRUE),
       Call("deprovision", <<vm>>, TRUE),
       Call("stop", <<vm>>, TRUE),
       Call("get_vm", <<vm>>, TRUE),
       Call("begin_grant_access",
            <<runbook.resource_group_name, OsDiskName(vm), "Read",
              ToString(GrantDuration)>>, TRUE),
       Call("wait_operation_grant", <<OsDiskName(vm)>>, TRUE),
       Call("check_or_create_storage_account", <<>>, TRUE),
       Call("get_or_create_storage_container", <<>>, TRUE) >>

AllocRunbook(r, h) ==
    [ resource_group_name |-> ResourceGroup, vm_name |-> VmName(r),
      file_name_part |-> h, custom_blob_name |-> <<>>, restore |-> FALSE ]

InitAlloc ==
    /\ clock \in 0..MaxClock
    /\ blobs = {}
    /\ nOther = 0
    /\ power = [v \in VmNames |-> "stopped"]
    /\ sas = [v \in VmNames |-> TRUE]
    /\ envNodes = [i \in Runs |-> VmName(i)]
    /\ \E hs \in [Runs -> FileNameParts] :
          rb = [r \in Runs |-> AllocRunbook(r, hs[r])]
    /\ pc = [r \in Runs |-> "select_path"]
    /\ node = [r \in Runs |-> VmName(r)]
    /\ calls = [r \in Runs |-> PreparedCalls(VmName(r), rb[r])]
    /\ attempts = [r \in Runs |-> 0]
    /\ listing = [r \in Runs |-> NoListing]
    /\ path = [r \in Runs |-> <<>>]
    /\ sasUrl = [r \in Runs |-> <<"sas", OsDiskName(VmName(r))>>]
    /\ vhdPath = [r \in Runs |-> <<>>]
    /\ output = [r \in Runs |-> <<>>]
    /\ error = [r \in Runs |-> ""]
    /\ EnsureIdle
    /\ SigIdle
    /\ WaitIdle
    /\ DeleteIdle
    /\ SuiteIdle

NextAlloc ==
    \/ \E r \in Runs : SelectPath(r)
    \/ \E r \in Runs : GenerateVhdPath(r)
    \/ \E r \in Runs : StartCopy(r)

SpecAlloc == InitAlloc /\ [][NextAlloc]_vars

\* a run of Spec that reaches the choice of its path is in the state the
\* runs of SpecAlloc start from
PreparedAsInSpec ==
    \A r \in Runs : pc[r] = "select_path" =>
        /\ calls[r] = PreparedCalls(node[r], rb[r])
        /\ power[node[r]] = "stopped"
        /\ sas[node[r]]
        /\ sasUrl[r] = <<"sas", OsDiskName(node[r])>>
        /\ attempts[r] = 0 /\ listing[r] = NoListing /\ path[r] = <<>>
        /\ vhdPath[r] = <<>> /\ output[r] = <<>> /\ error[r] = ""

---------------------------------------------------------------------------
(* SpecWait: one export run whose blocking waits are polling loops.  The
   waits (wait_operation for the grant and the revoke, wait_copy_blob for
   the copy) belong to the Azure helpers: a wait polls its operation, sleeps
   and polls again until the operation is in a terminal state or the timeout
   the caller passed has expired; without a timeout only a terminal state
   ends it.  The provider decides when, and whether, an operation reaches a
   terminal state. *)

\* the positions where an export run blocks
WaitSteps == {"wait_grant", "wait_copy", "wait_revoke"}

\* the timeout the export passes to the wait it makes at a position ("none":
\* the call carries no timeout)
WaitTimeout(step) ==
    CASE step = "wait_grant"  -> "none"
      [] step = "wait_copy"   -> "none"
      [] step = "wait_revoke" -> "none"

\* the wait polls an operation that has not ended; no deadline ends the loop
Poll(r) ==
    /\ pc[r] \in WaitSteps
    /\ pc[r] \notin ended
    /\ WaitTimeout(pc[r]) = "none"
    /\ wphase = "poll"
    /\ wphase' = "sleep"
    /\ UNCHANGED <<ended, exportVars, ensVars, sigVars, delVars, suiteVars>>

\* the pause between two polls
Sleep(r) ==
    /\ pc[r] \in WaitSteps
    /\ wphase = "sleep"
    /\ wphase' = "poll"
    /\ UNCHANGED <<ended, exportVars, ensVars, sigVars, delVars, suiteVars>>

\* the provider brings the awaited operation to a terminal state
OperationEnds(r) ==
    /\ pc[r] \in WaitSteps
    /\ pc[r] \notin ended
    /\ ended' = ended \cup {pc[r]}
    /\ UNCHANGED <<wphase, exportVars, ensVars, sigVars, delVars, suiteVars>>

\* a step of the run; a wait returns (or raises the provider's failure) at
\* the poll that finds its operation in a terminal state
RunStepWaited(r) ==
    /\ pc[r] \in WaitSteps => pc[r] \in ended /\ wphase = "poll"
    /\ RunStep(r)

NextWait ==
    \/ \E r \in Runs : RunStepWaited(r)
    \/ \E r \in Runs : Poll(r)
    \/ \E r \in Runs : Sleep(r)
    \/ \E r \in Runs : OperationEnds(r)

\* the run keeps executing; nothing obliges the provider
SpecWait ==
    /\ Init
    /\ [][NextWait]_vars
    /\ WF_vars(\E r \in Runs : RunStepWaited(r) \/ Poll(r) \/ Sleep(r))

---------------------------------------------------------------------------
(* SpecEnsure: concurrent invocations of one pipeline ensuring its shared
   resources, which all stand or are all absent at the start. *)

\* no export run is under way
ExportIdle ==
    /\ clock = 0
    /\ blobs = {}
    /\ nOther = 0
    /\ power = [v \in VmNames |-> "running"]
    /\ sas = [v \in VmNames |-> FALSE]
    /\ envNodes = <<>>
    /\ rb = [r \in Runs |-> IdleRunbook]
    /\ pc = [r \in Runs |-> "idle"]
    /\ node = [r \in Runs |-> ""]
    /\ calls = [r \in Runs |-> <<>>]
    /\ attempts = [r \in Runs |-> 0]
    /\ listing = [r \in Runs |-> NoListing]
    /\ path = [r \in Runs |-> <<>>]
    /\ sasUrl = [r \in Runs |-> <<>>]
    /\ vhdPath = [r \in Runs |-> <<>>]
    /\ output = [r \in Runs |-> <<>>]
    /\ error = [r \in Runs |-> ""]

InitEnsure ==
    /\ ExportIdle
    /\ SigIdle
    /\ WaitIdle
    /\ DeleteIdle
    /\ SuiteIdle
    /\ \E x \in {Absent, Standing} : store = [y \in SharedResources |-> x]
    /\ created = [x \in SharedResources |-> 0]
    /\ \E p \in Plans : plan = [c \in Runs |-> p]
    /\ epos = [c \in Runs |-> 1]
    /\ ephase = [c \in Runs |-> "read"]
    /\ results = [c \in Runs |-> <<>>]
    /\ createCalls = [c \in Runs |-> <<>>]

NextEnsure ==
    \/ \E c \in Runs : EnsureRead(c)
    \/ \E c \in Runs : EnsureCreate(c)
    \/ \E c \in Runs : EnsureReread(c)

SpecEnsure == InitEnsure /\ [][NextEnsure]_vars

---------------------------------------------------------------------------
(* SpecSig: one publication run, from its construction *)

InitSig ==
    /\ ExportIdle
    /\ EnsureIdle
    /\ WaitIdle
    /\ DeleteIdle
    /\ SuiteIdle
    /\ sigRb \in SigRunbooks
    /\ sigPc = "load_platform"
    /\ sigCalls = <<>>
    /\ sigLocals = NoLocals
    /\ sigOutput = <<>>
    /\ sigError = ""
    /\ vmEnv \in {<<>>, <<VmName(1)>>}
    /\ vmState = [power |-> "running", generalized |-> FALSE]
    /\ sourceBlob \in BOOLEAN
    /\ versions \in {{}, {<<"0.0.1">>}}

NextSig ==
    \/ SigLoadPlatform
    \/ SigParse
    \/ SigLoadEnvironment
    \/ SigFirstNode
    \/ SigGetVm
    \/ SigStop
    \/ SigGeneralize
    \/ SigGetDeployableVhdPath
    \/ SigGetVhdDetails
    \/ SigCheckBlobExist
    \/ SigEnsureResourceGroup
    \/ SigEnsureGallery
    \/ SigEnsureImage
    \/ SigCreateVersion
    \/ SigReturn

SpecSig == InitSig /\ [][NextSig]_vars

---------------------------------------------------------------------------
(* Deploy and delete.  A delete run tears down the resource group its
   runbook names; the name is given, or is the one an earlier deploy run
   returned.  The platform (not part of the transformers) deletes the group
   the environment's context names when the context says the group is
   specified; otherwise it has to find the group from the nodes of the
   environment, which a placeholder environment does not have. *)

\* the resource groups a runbook may name; each exists or does not
GivenGroups == {"rg1", "rg2", "rg3"}

\* the resource group a deploy run makes
DeployedGroup == "lisa-deploy-e0"

\* the environment of a delete run once its context is filled in: one
\* node without requirements, the name of the runbook, the flag
MockEnvironmentUnspecified(name) ==
    [ nodes |-> <<"NodeSpace">>,
      resource_group_name |-> name,
      resource_group_is_specified |-> FALSE ]

MockEnvironment(name) ==
    [ nodes |-> <<"NodeSpace">>,
      resource_group_name |-> name,
      resource_group_is_specified |-> TRUE ]

\* DeployTransformer._internal_run; its resource_group_name output is the
\* resource_group_name of the delete run that follows
Deploy ==
    /\ delPc = "deploy"
    /\ \/ /\ groups' = groups \cup {DeployedGroup}
          /\ delRb' = [resource_group_name |-> DeployedGroup]
          /\ delPc' = "load_platform"
          /\ UNCHANGED delError
       \/ /\ \E e \in {"load_platform", "prepare_environment",
                      "deploy_environment"} : delError' = e
          /\ delPc' = "failed"
          /\ UNCHANGED <<groups, delRb>>
    /\ UNCHANGED <<delEnv, delCalls, delOutput>>
    /\ UNCHANGED <<exportVars, ensVars, sigVars, waitVars, suiteVars>>

DelLoadPlatform ==
    /\ delPc = "load_platform"
    /\ \E ok \in BOOLEAN :
        /\ delPc' = IF ok THEN "mock_environment" ELSE "failed"
        /\ delError' = IF ok THEN delError ELSE "load_platform"
    /\ UNCHANGED <<groups, delRb, delEnv, delCalls, delOutput>>
    /\ UNCHANGED <<exportVars, ensVars, sigVars, waitVars, suiteVars>>

DelMockEnvironment ==
    /\ delPc = "mock_environment"
    /\ delEnv' = MockEnvironment(delRb.resource_group_name)
    /\ delPc' = "delete_environment"
    /\ UNCHANGED <<groups, delRb, delCalls, delOutput, delError>>
    /\ UNCHANGED <<exportVars, ensVars, sigVars, waitVars, suiteVars>>

\* platform.delete_environment(environment) and the return that follows it
DelDeleteEnvironment ==
    /\ delPc = "delete_environment"
    /\ delCalls' = Append(delCalls, delEnv)
    /\ IF ~delEnv.resource_group_is_specified
       THEN /\ delError' = "no_node_data"
            /\ delPc' = "failed"
            /\ UNCHANGED <<groups, delOutput>>
       ELSE \E ok \in BOOLEAN :
            /\ groups' = IF ok THEN groups \ {delEnv.resource_group_name}
                               ELSE groups
            /\ delOutput' = IF ok THEN << <<>> >> ELSE delOutput
            /\ delError' = IF ok THEN delError ELSE "delete_environment"
            /\ delPc' = IF ok THEN "done" ELSE "failed"
    /\ UNCHANGED <<delRb, delEnv>>
    /\ UNCHANGED <<exportVars, ensVars, sigVars, waitVars, suiteVars>>

InitDelete ==
    /\ ExportIdle
    /\ EnsureIdle
    /\ SigIdle
    /\ WaitIdle
    /\ SuiteIdle
    /\ groups \in SUBSET GivenGroups
    /\ \/ delPc = "deploy" /\ delRb = [resource_group_name |-> ""]
       \/ delPc = "load_platform"
          /\ \E g \in GivenGroups : delRb = [resource_group_name |-> g]
    /\ delEnv = <<>>
    /\ delCalls = <<>>
    /\ delOutput = <<>>
    /\ delError = ""

NextDelete ==
    \/ Deploy
    \/ DelLoadPlatform
    \/ DelMockEnvironment
    \/ DelDeleteEnvironment

SpecDelete == InitDelete /\ [][NextDelete]_vars

---------------------------------------------------------------------------
(* Procedures of the test suites.  Messages are sequences of words, so
   that "contains" is computed. *)

\* what a call to the provider comes to: its result, or a failure with one
\* of these messages
PatchOutcomes ==
    LET messages ==
          { <<"(OperationNotAllowed)", "The", "selected", "VM", "image", "is",
              "not", "supported", "for", "patching">>,
            <<"CPU", "Architecture", "'arm64'", "was", "not", "found", "in",
              "the", "extension", "repository">>,
            <<"The", "selected", "VM", "image", "is", "supported">>,
            <<"the", "selected", "vm", "image", "is", "not", "supported">>,
            <<"CPU", "Architecture", "'x64'", "was", "not", "found", "in",
              "the", "extension", "repository">>,
            <<"The", "selected", "VM">>,
            <<"Internal", "server", "error">> }
    IN  {[kind |-> "ok", msg |-> <<>>]}
            \cup [kind : {"HttpResponseError"}, msg : messages]

\* s in str(identifier)
Contains(msg, s) ==
    \E i \in 1..(Len(msg) - Len(s) + 1) : SubSeq(msg, i, i + Len(s) - 1) = s

\* the messages of a provider failure that tell an unsupported image
UnsupportedImageMessagesFirstOnly ==
    { <<"The", "selected", "VM", "image", "is", "not", "supported">> }

UnsupportedImageMessages ==
    { <<"The", "selected", "VM", "image", "is", "not", "supported">>,
      <<"CPU", "Architecture", "'arm64'", "was", "not", "found", "in",
        "the", "extension", "repository">> }

SkippedUnsupportedImage ==
    [ type |-> "SkippedException",
      msg |-> <<"Linux", "Patch", "Extension", "doesn't", "support", "this",
                "Distro", "version.">> ]

\* the except clause of a patch workflow: what leaves the workflow when the
\* provider reported the failure e
OnHttpResponseError(e) ==
    IF \E s \in UnsupportedImageMessages : Contains(e.msg, s)
    THEN SkippedUnsupportedImage
    ELSE [type |-> e.kind, msg |-> e.msg]

\* begin_assess_patches or begin_install_patches
BeginPatches ==
    /\ suiteProc \in {"assessment", "installation"}
    /\ suitePc = "begin"
    /\ \E out \in PatchOutcomes :
        /\ suiteLog' = Append(suiteLog,
              [op |-> IF suiteProc = "assessment" THEN "begin_assess_patches"
                      ELSE "begin_install_patches",
               arg |-> out])
        /\ suitePc' = IF out.kind = "ok" THEN "wait_operation" ELSE "raised"
        /\ suiteRaised' = IF out.kind = "ok" THEN suiteRaised
                          ELSE <<OnHttpResponseError(out)>>
    /\ UNCHANGED <<suiteProc, suiteIn, suiteIdx>>
    /\ UNCHANGED <<exportVars, ensVars, sigVars, waitVars, delVars>>

\* wait_operation(operation, timeout): the result, the provider's failure,
\* or the timeout, which is no HttpResponseError
WaitPatches ==
    /\ suiteProc \in {"assessment", "installation"}
    /\ suitePc = "wait_operation"
    /\ \E out \in PatchOutcomes \cup {[kind |-> "timeout", msg |-> <<>>]} :
        /\ suiteLog' = Append(suiteLog, [op |-> "wait_operation", arg |-> out])
        /\ suitePc' = IF out.kind = "ok" THEN "status_file" ELSE "raised"
        /\ suiteRaised' =
              CASE out.kind = "ok" -> suiteRaised
                [] out.kind = "timeout" ->
                      <<[type |-> "LisaException", msg |-> <<"timeout">>]>>
                [] OTHER -> <<OnHttpResponseError(out)>>
    /\ UNCHANGED <<suiteProc, suiteIn, suiteIdx>>
    /\ UNCHANGED <<exportVars, ensVars, sigVars, waitVars, delVars>>

\* the checks of the result: _verify_unsupported_vm_agent, which may skip,
\* then _assert_status_file_result, whose assertions hold or fail
AssertStatusFile ==
    /\ suiteProc \in {"assessment", "installation"}
    /\ suitePc = "status_file"
    /\ \/ /\ suiteLog' = Append(suiteLog,
                [op |-> "verify_unsupported_vm_agent",
                 arg |-> [kind |-> "unsupported", msg |-> <<>>]])
          /\ suitePc' = "raised"
          /\ suiteRaised' = <<SkippedUnsupportedImage>>
       \/ \E holds \in BOOLEAN :
          /\ suiteLog' = Append(suiteLog,
                [op |-> "assert_status_file_result",
                 arg |-> [kind |-> IF holds THEN "ok" ELSE "failed",
                          msg |-> <<>>]])
          /\ suitePc' = IF holds THEN "returned" ELSE "raised"
          /\ suiteRaised' = IF holds THEN suiteRaised
                            ELSE <<[type |-> "AssertionError", msg |-> <<>>]>>
    /\ UNCHANGED <<suiteProc, suiteIn, suiteIdx>>
    /\ UNCHANGED <<exportVars, ensVars, sigVars, waitVars, delVars>>

\* Installer._should_install(required_version): "TypeError" is what the
\* comparison of None with a version raises
ShouldInstall(in, required_version) ==
    IF ~in.installed THEN "True"
    ELSE IF required_version = <<>> THEN "TypeError"
    ELSE "False"

\* a step of do_installation that runs commands on the node
InstallerError(step) == <<[type |-> "LisaException", msg |-> <<step>>]>>

SetupNode ==
    /\ suiteProc = "do_installation"
    /\ suitePc = "setup_node"
    /\ suiteLog' = Append(suiteLog, [op |-> "setup_node", arg |-> <<>>])
    /\ \E ok \in BOOLEAN :
        /\ suitePc' = IF ok THEN "should_install" ELSE "raised"
        /\ suiteRaised' = IF ok THEN suiteRaised ELSE InstallerError("setup_node")
    /\ UNCHANGED <<suiteProc, suiteIn, suiteIdx>>
    /\ UNCHANGED <<exportVars, ensVars, sigVars, waitVars, delVars>>

\* if self._should_install(): the call passes no required_version
DecideInstall ==
    /\ suiteProc = "do_installation"
    /\ suitePc = "should_install"
    /\ LET decision == ShouldInstall(suiteIn, <<>>)
       IN  /\ suitePc' = CASE decision = "True" -> "uninstall"
                           [] decision = "False" -> "returned"
                           [] OTHER -> "raised"
           /\ suiteRaised' = IF decision \in {"True", "False"} THEN suiteRaised
                             ELSE <<[type |-> decision, msg |-> <<>>]>>
    /\ UNCHANGED <<suiteProc, suiteIn, suiteIdx, suiteLog>>
    /\ UNCHANGED <<exportVars, ensVars, sigVars, waitVars, delVars>>

Uninstall ==
    /\ suiteProc = "do_installation"
    /\ suitePc = "uninstall"
    /\ suiteLog' = Append(suiteLog, [op |-> "uninstall", arg |-> <<>>])
    /\ \E ok \in BOOLEAN :
        /\ suitePc' = IF ok THEN "install_dependencies" ELSE "raised"
        /\ suiteRaised' = IF ok THEN suiteRaised ELSE InstallerError("uninstall")
    /\ UNCHANGED <<suiteProc, suiteIn, suiteIdx>>
    /\ UNCHANGED <<exportVars, ensVars, sigVars, waitVars, delVars>>

\* one turn of the loop of install_required_packages, called by a test or
\* by _install_dependencies of do_installation (an installer without
\* os_dependencies is one with no requirements); past the last requirement
\* the loop is left
InstallRequiredPackages ==
    /\ suiteProc \in {"do_installation", "install_required_packages"}
    /\ suitePc = "install_dependencies"
    /\ LET after == IF suiteProc = "do_installation" THEN "install"
                    ELSE "returned"
       IN  IF suiteIdx > Len(suiteIn.requirements)
           THEN /\ suitePc' = after
                /\ UNCHANGED <<suiteIdx, suiteLog, suiteRaised>>
           ELSE LET requirement == suiteIn.requirements[suiteIdx]
                    tested == Append(suiteLog,
                                     [op |-> "matcher", arg |-> suiteIdx])
                IN  CASE requirement.matcher = "thrower" ->
                            /\ suiteLog' = tested
                            /\ suitePc' = "raised"
                            /\ suiteRaised' =
                                  <<[type |-> "UnsupportedDistroException",
                                     msg |-> <<>>]>>
                            /\ UNCHANGED suiteIdx
                      [] requirement.matcher = "accept"
                            /\ requirement.packages # <<>> ->
                            /\ suiteLog' = Append(tested,
                                  [op |-> "install_packages", arg |-> suiteIdx])
                            /\ suitePc' = IF requirement.stop_on_match THEN after
                                          ELSE suitePc
                            /\ suiteIdx' = suiteIdx + 1
                            /\ UNCHANGED suiteRaised
                      [] OTHER ->
                            /\ suiteLog' = tested
                            /\ suiteIdx' = suiteIdx + 1
                            /\ UNCHANGED <<suitePc, suiteRaised>>
    /\ UNCHANGED <<suiteProc, suiteIn>>
    /\ UNCHANGED <<exportVars, ensVars, sigVars, waitVars, delVars>>

Install ==
    /\ suiteProc = "do_installation"
    /\ suitePc = "install"
    /\ suiteLog' = Append(suiteLog, [op |-> "install", arg |-> <<>>])
    /\ \E ok \in BOOLEAN :
        /\ suitePc' = IF ok THEN "returned" ELSE "raised"
        /\ suiteRaised' = IF ok THEN suiteRaised ELSE InstallerError("install")
    /\ UNCHANGED <<suiteProc, suiteIn, suiteIdx>>
    /\ UNCHANGED <<exportVars, ensVars, sigVars, waitVars, delVars>>

\* the lists of at most n requirements; a requirement has a matcher that
\* accepts or rejects the node's OS, with or without packages, stopping or
\* not, or is unsupported_os_thrower with the defaults
RequirementLists(n) ==
    LET requirements ==
          [ matcher : {"accept", "reject"},
            packages : {<<>>, <<"build-essential">>},
            stop_on_match : BOOLEAN ]
          \cup {[matcher |-> "thrower", packages |-> <<>>,
                 stop_on_match |-> FALSE]}
    IN  UNION {[1..k -> requirements] : k \in 0..n}

InitSuite ==
    /\ ExportIdle
    /\ EnsureIdle
    /\ SigIdle
    /\ WaitIdle
    /\ DeleteIdle
    /\ \/ /\ suiteProc \in {"assessment", "installation"}
          /\ suiteIn = <<>>
          /\ suitePc = "begin"
       \/ /\ suiteProc = "do_installation"
          /\ \E installed \in BOOLEAN, v \in 1..2,
                required \in {<<>>, <<1>>, <<2>>},
                reqs \in RequirementLists(1) :
                suiteIn = [ installed |-> installed,
                            installed_version |->
                                IF installed THEN <<v>> ELSE <<>>,
                            required_version |-> required,
                            requirements |-> reqs ]
          /\ suitePc = "setup_node"
       \/ /\ suiteProc = "install_required_packages"
          /\ \E reqs \in RequirementLists(MaxReqs) :
                suiteIn = [requirements |-> reqs]
          /\ suitePc = "install_dependencies"
    /\ suiteIdx = 1
    /\ suiteLog = <<>>
    /\ suiteRaised = <<>>

NextSuite ==
    \/ BeginPatches
    \/ WaitPatches
    \/ AssertStatusFile
    \/ SetupNode
    \/ DecideInstall
    \/ Uninstall
    \/ InstallRequiredPackages
    \/ Install

SpecSuite == InitSuite /\ [][NextSuite]_vars

---------------------------------------------------------------------------
(* Properties of the export run *)

Terminated(r) == pc[r] \in {"done", "failed"}

\* the run took its path from _generate_vhd_path
Allocated(r) == rb[r].custom_blob_name = <<>> /\ path[r] # <<>>

Revoke(r) ==
    Call("begin_revoke_access",
         <<rb[r].resource_group_name, OsDiskName(node[r])>>, TRUE)

Revokes(r) == {i \in 1..Len(calls[r]) : calls[r][i] = Revoke(r)}

\* C1: a run that requested the disk access grant and saw it complete has,
\* when it ends, issued the revoke for the same resource group and disk
\* exactly once, whatever became of the later steps.
C1_RevokeExactlyOnce ==
    \A r \in Runs :
        (Terminated(r) /\ "wait_operation_grant" \in OkOps(r))
            => Cardinality(Revokes(r)) = 1

\* C2: a run that failed in a step of the export after the grant was
\* requested (wait for the grant to copy completion) reports the error of
\* that step, and has invoked the revoke before the failure is reported.
C2_RevokeBeforeFailureReported ==
    \A r \in Runs :
        (pc[r] = "failed" /\ error[r] \in ExportSteps \ {"begin_grant_access"})
            => "begin_revoke_access" \in Ops(r)

\* C3: every grant call of a run is preceded by a completed deprovision and,
\* after it, a completed stop of the same node; the VM is stopped from the
\* grant until a start.
C3_PrepareBeforeGrant ==
    \A r \in Runs :
        /\ \A i \in 1..Len(calls[r]) :
              calls[r][i].op = "begin_grant_access" =>
                \E j, k \in 1..(i - 1) :
                    /\ j < k
                    /\ calls[r][j] = Call("deprovision", <<node[r]>>, TRUE)
                    /\ calls[r][k] = Call("stop", <<node[r]>>, TRUE)
        /\ ("begin_grant_access" \in Ops(r) /\ "start" \notin Ops(r))
              => power[node[r]] = "stopped"

C3_Witness ==
    \E r \in Runs : "begin_grant_access" \in OkOps(r)

FailedPrepare(r) ==
    \E i \in 1..Len(calls[r]) :
        calls[r][i].op \in {"deprovision", "stop"} /\ ~calls[r][i].ok

\* C4: when deprovision or stop fails the run fails; neither call is made a
\* second time, and no grant, no storage ensure and no copy is requested.
C4_FailedPrepareIsFatal ==
    \A r \in Runs :
        /\ Count(r, "deprovision") <= 1
        /\ Count(r, "stop") <= 1
        /\ FailedPrepare(r) =>
            /\ pc[r] = "failed"
            /\ error[r] \in PrepareSteps
            /\ output[r] = <<>>
            /\ Ops(r) \cap {"begin_grant_access", "wait_operation_grant",
                             "check_or_create_storage_account",
                             "get_or_create_storage_container",
                             "list_blobs", "start_copy_from_url"} = {}

C4_Witness ==
    \E r \in Runs : error[r] = "stop" /\ "deprovision" \in OkOps(r)

\* C5 as stated: in every run that stopped the VM, when the run has ended
\* the VM was started again exactly if restore is set, and with restore
\* unset the VM is stopped.
C5_StartIffRestore ==
    \A r \in Runs :
        (Terminated(r) /\ "stop" \in OkOps(r)) =>
            /\ ("start" \in Ops(r)) <=> rb[r].restore
            /\ ~rb[r].restore => power[node[r]] = "stopped"

\* C5 as amended: a start is issued only with restore set and only after the
\* revoke operation has completed; a run whose revoke completed issues the
\* start next exactly if restore is set; with restore unset no start is ever
\* issued; a VM the run stopped stays stopped unless the run started it.
C5_StartOnlyAfterRevoke ==
    \A r \in Runs :
        /\ \A i \in 1..Len(calls[r]) :
              calls[r][i].op = "start" =>
                /\ rb[r].restore
                /\ \E j \in 1..(i - 1) :
                      calls[r][j] =
                        Call("wait_operation_revoke", <<OsDiskName(node[r])>>, TRUE)
        /\ ("wait_operation_revoke" \in OkOps(r) /\ pc[r] # "start")
              => (("start" \in Ops(r)) <=> rb[r].restore)
        /\ (pc[r] = "done") => (("start" \in OkOps(r)) <=> rb[r].restore)
        /\ ~rb[r].restore => "start" \notin Ops(r)
        /\ ("stop" \in OkOps(r) /\ "start" \notin OkOps(r))
              => power[node[r]] = "stopped"

C5_Witness ==
    \E r \in Runs : pc[r] = "done" /\ rb[r].restore /\ "start" \in OkOps(r)

\* C6: a path the allocator returned is the prefix its last listing asked
\* for, and that listing was empty; while the last listing is non-empty the
\* allocator has returned nothing (it retries, or has raised).
C6_ReturnedPathHadEmptyListing ==
    \A r \in Runs :
        /\ Allocated(r) =>
              /\ listing[r].prefix = path[r]
              /\ listing[r].found = {}
        /\ listing[r].found # {} =>
              /\ path[r] = <<>>
              /\ pc[r] \in {"generate_vhd_path", "failed"}

C6_Witness ==
    \E r \in Runs : Allocated(r) /\ attempts[r] >= 2

\* C7: the allocator makes at most 10 attempts; a colliding attempt before
\* the tenth leaves the run retrying; after a colliding tenth the run has
\* failed with the allocator's error, without a path, a copy or an output.
C7_AtMostTenAttempts ==
    \A r \in Runs :
        /\ attempts[r] <= 10
        /\ pc[r] = "generate_vhd_path" => attempts[r] < 10
        /\ (listing[r].found # {} /\ attempts[r] < 10)
              => pc[r] = "generate_vhd_path"
        /\ (listing[r].found # {} /\ attempts[r] = 10) =>
              /\ pc[r] = "failed"
              /\ error[r] = "generate_vhd_path"
        /\ error[r] = "generate_vhd_path" =>
              /\ attempts[r] = 10
              /\ Count(r, "list_blobs") = 10
              /\ path[r] = <<>>
              /\ output[r] = <<>>
              /\ "start_copy_from_url" \notin Ops(r)

C7_Witness ==
    \E r \in Runs : error[r] = "generate_vhd_path"

\* the clock reading in a generated path: <date>/<time>_...
TimeOf(p) == p[3]

\* C8 as stated: allocator calls with distinct hints that return in the same
\* time window return distinct paths.
C8_DistinctHintsDistinctPaths ==
    \A r1, r2 \in Runs :
        ( /\ r1 # r2
          /\ Allocated(r1) /\ Allocated(r2)
          /\ rb[r1].file_name_part # rb[r2].file_name_part
          /\ TimeOf(path[r1]) = TimeOf(path[r2]) )
            => path[r1] # path[r2]

\* the hint holds an empty or "." segment between two separators ("//" or
\* "/./"), which a POSIX path does not keep
HasCollapsingSegment(h) ==
    \E i \in 1..Len(h) :
        /\ h[i] = "/"
        /\ \/ (i + 1 <= Len(h) /\ h[i + 1] = "/")
           \/ (i + 2 <= Len(h) /\ h[i + 1] = "." /\ h[i + 2] = "/")

\* C8 as amended: concurrent allocator calls in the same time window with
\* distinct hints, none of which holds an empty or "." segment between
\* separators, return distinct paths under every interleaving.
C8_DistinctPlainHintsDistinctPaths ==
    \A r1, r2 \in Runs :
        ( /\ r1 # r2
          /\ Allocated(r1) /\ Allocated(r2)
          /\ rb[r1].file_name_part # rb[r2].file_name_part
          /\ ~HasCollapsingSegment(rb[r1].file_name_part)
          /\ ~HasCollapsingSegment(rb[r2].file_name_part) )
            => path[r1] # path[r2]

C8_Witness ==
    \E r1, r2 \in Runs :
        /\ r1 # r2
        /\ Allocated(r1) /\ Allocated(r2)
        /\ rb[r1].file_name_part # rb[r2].file_name_part
        /\ ~HasCollapsingSegment(rb[r1].file_name_part)
        /\ ~HasCollapsingSegment(rb[r2].file_name_part)
        /\ TimeOf(path[r1]) = TimeOf(path[r2])

CopyCalls(r) ==
    {i \in 1..Len(calls[r]) : calls[r][i].op = "start_copy_from_url"}

\* C9: with a custom blob name the allocator is never called (no attempt, no
\* listing), the copy goes to the blob of exactly that name and the output
\* is the container url, "/" and that name.
C9_CustomBlobNameVerbatim ==
    \A r \in Runs : rb[r].custom_blob_name # <<>> =>
        /\ attempts[r] = 0
        /\ listing[r] = NoListing
        /\ "list_blobs" \notin Ops(r)
        /\ \A i \in CopyCalls(r) : calls[r][i].arg = rb[r].custom_blob_name
        /\ \A i \in CopyCalls(r) :
              calls[r][i].ok => rb[r].custom_blob_name \in blobs
        /\ output[r] # <<>> =>
              output[r] = <<ContainerUrl, "/">> \o rb[r].custom_blob_name

C9_Witness ==
    \E r \in Runs :
        /\ rb[r].custom_blob_name # <<>>
        /\ pc[r] = "done"
        /\ "start_copy_from_url" \in OkOps(r)

\* C10 as stated: without a custom blob name the output is the container
\* url, "/" and the string <date>/<time>_exported_<file_name_part>.vhd of
\* some clock reading, and the copy goes to the blob of that name.
C10_OutputIsFormattedPath ==
    \A r \in Runs : (rb[r].custom_blob_name = <<>> /\ output[r] # <<>>) =>
        \E t \in 0..MaxClock :
            /\ output[r] =
                 <<ContainerUrl, "/">> \o PathString(t, rb[r].file_name_part)
            /\ \A i \in CopyCalls(r) :
                 calls[r][i].arg = PathString(t, rb[r].file_name_part)

\* C10 as amended: without a custom blob name the destination is the path
\* the allocator returned, which is the string
\* <date>/<time>_exported_<file_name_part>.vhd of some clock reading with its
\* empty and "." segments removed (the string itself when the hint holds no
\* such segment); the output is the container url, "/" and that path, and
\* the copy goes to the blob at that path.
C10_OutputIsAllocatedPath ==
    \A r \in Runs : rb[r].custom_blob_name = <<>> =>
        /\ \A i \in CopyCalls(r) :
              /\ calls[r][i].arg = path[r]
              /\ calls[r][i].ok => path[r] \in blobs
        /\ CopyCalls(r) # {} => Allocated(r)
        /\ output[r] # <<>> =>
              /\ CopyCalls(r) # {}
              /\ output[r] = <<ContainerUrl, "/">> \o path[r]
        /\ Allocated(r) =>
              \E t \in 0..MaxClock :
                /\ SplitParts(path[r], 1, <<>>) =
                     PurePosixPath(PathString(t, rb[r].file_name_part))
                /\ ~HasCollapsingSegment(rb[r].file_name_part)
                     => path[r] = PathString(t, rb[r].file_name_part)

C10_Witness ==
    \E r \in Runs :
        /\ rb[r].custom_blob_name = <<>>
        /\ rb[r].file_name_part = <<"centos79">>
        /\ pc[r] = "done"
        /\ output[r] # <<>>

---------------------------------------------------------------------------
(* Target node resolution of the export run *)

\* no node of the environment answers the runbook: the environment is empty,
\* or vm_name is set and no node carries it
NoNodeMatches(r) ==
    \/ envNodes = <<>>
    \/ /\ rb[r].vm_name # ""
       /\ \A i \in 1..Len(envNodes) : envNodes[i] # rb[r].vm_name

\* the run has come past the resolution of its node
PastResolve(r) ==
    "load_environment" \in OkOps(r) /\ pc[r] # "resolve_node"

NodeCalls ==
    {"deprovision", "stop", "get_vm", "begin_grant_access",
     "wait_operation_grant", "start_copy_from_url", "wait_copy_blob",
     "begin_revoke_access", "wait_operation_revoke", "start"}

\* C13: a run that has resolved its node holds the node named vm_name when
\* vm_name is set and the first node of the environment when it is not; a
\* run no node answers has failed at the resolution, holds no node, and has
\* issued no deprovision, stop, grant, copy or any other call on a node.
C13_NodeResolution ==
    \A r \in Runs : PastResolve(r) =>
        IF NoNodeMatches(r)
        THEN /\ pc[r] = "failed" /\ error[r] = "resolve_node"
             /\ node[r] = ""
             /\ Ops(r) \cap NodeCalls = {}
        ELSE /\ error[r] # "resolve_node"
             /\ rb[r].vm_name # "" => node[r] = rb[r].vm_name
             /\ rb[r].vm_name = "" => node[r] = envNodes[1]

\* a run whose vm_name no node of a populated environment carries has
\* failed at the resolution
C13_Witness ==
    \E r \in Runs :
        /\ envNodes # <<>> /\ rb[r].vm_name # "" /\ NoNodeMatches(r)
        /\ pc[r] = "failed" /\ error[r] = "resolve_node"

---------------------------------------------------------------------------
(* Properties of ensure *)

\* the create calls invocation c sent for resource x
CreatesOf(c, x) == {k \in 1..Len(createCalls[c]) : createCalls[c][k] = x}

\* the completed ensure calls of invocation c for resource x
EnsuredAt(c, x) == {i \in 1..Len(results[c]) : plan[c][i] = x}

\* C11: two ensure calls an invocation makes one after the other for the
\* same resource return the same resource identity, and the invocation
\* sends at most one create call for the resource; so it is for every
\* resource of two export runs in sequence (account and container).
C11_EnsureTwiceIsIdempotent ==
    \A c \in Runs : \A x \in SharedResources :
        /\ \A i, j \in EnsuredAt(c, x) :
              results[c][i] = results[c][j] /\ results[c][i] # Absent
        /\ Cardinality(CreatesOf(c, x)) <= 1

\* an invocation ran the export's ensure calls twice over absent resources:
\* it created account and container in the first pass and none in the second
C11_Witness ==
    \E c \in Runs :
        /\ plan[c] = ExportPlan \o ExportPlan
        /\ ephase[c] = "done"
        /\ createCalls[c] = ExportPlan
        /\ results[c][1] = results[c][3] /\ results[c][2] = results[c][4]

\* C12: under every interleaving of concurrent invocations no ensure call
\* fails, all ensure calls for a resource return the same existing
\* resource, an invocation whose create lost the race returns the resource
\* the other created, and an absent resource is created exactly once.
C12_ConcurrentEnsureCreatesOnce ==
    /\ \A c \in Runs : ephase[c] # "failed"
    /\ \A x \in SharedResources :
        /\ created[x] <= 1
        /\ \A c, d \in Runs : \A i \in EnsuredAt(c, x), j \in EnsuredAt(d, x) :
              /\ results[c][i] = results[d][j]
              /\ results[c][i] = store[x]
              /\ results[c][i] \in {Standing} \cup {CreatedBy(e) : e \in Runs}
              /\ results[c][i] # Standing => created[x] = 1
              /\ CreatesOf(c, x) # {} /\ results[c][i] # CreatedBy(c)
                    => \E e \in Runs \ {c} : results[c][i] = CreatedBy(e)

\* two invocations both sent a create for the gallery; both ensure calls
\* returned, with the gallery the winner created
C12_Witness ==
    \E c, d \in Runs :
        /\ c # d
        /\ CreatesOf(c, "gallery") # {} /\ CreatesOf(d, "gallery") # {}
        /\ EnsuredAt(c, "gallery") # {} /\ EnsuredAt(d, "gallery") # {}
        /\ results[c][2] = CreatedBy(d) /\ results[d][2] = CreatedBy(d)
        /\ created["gallery"] = 1

---------------------------------------------------------------------------
(* Properties of the publication run *)

\* the run has come past the unpacking of gallery_image_fullname
PastParse == "load_platform" \in SigOkOps /\ sigPc # "parse"

\* C14: a gallery_image_fullname of exactly four words (maximal runs of
\* characters other than the space) is unpacked into publisher, offer, sku
\* and version, its first to fourth word; with fewer or more than four
\* words the run fails at the unpacking and yields no output.
C14_FullNameUnpacksFourWords ==
    LET s == sigRb.gallery_image_fullname
        starts == {i \in 1..Len(s) : s[i] # " " /\ (i = 1 \/ s[i - 1] = " ")}
        start(k) == CHOOSE i \in starts :
                        Cardinality({j \in starts : j <= i}) = k
        end(i) == CHOOSE j \in i..Len(s) :
                        /\ \A m \in i..j : s[m] # " "
                        /\ j = Len(s) \/ s[j + 1] = " "
        word(k) == SubSeq(s, start(k), end(start(k)))
    IN  /\ PastParse =>
            IF Cardinality(starts) = FullNameFields
            THEN /\ sigError # "parse"
                 /\ sigLocals.fullname = [k \in 1..FullNameFields |-> word(k)]
            ELSE /\ sigPc = "failed" /\ sigError = "parse"
                 /\ sigOutput = <<>>
        /\ PastParse /\ s = <<"Microsoft", " ", "Linux", " ", "arm64", " ", "0.0.1">>
            => sigLocals.fullname =
                  << <<"Microsoft">>, <<"Linux">>, <<"arm64">>, <<"0.0.1">> >>

\* a run whose full name holds four words between single and double spaces
\* has unpacked them and returned
C14_Witness ==
    /\ sigRb.gallery_image_fullname =
          <<" ", "Microsoft", " ", " ", "Linux", " ", "arm64", " ", "0.0.1", " ">>
    /\ sigLocals.fullname = << <<"Microsoft">>, <<"Linux">>, <<"arm64">>, <<"0.0.1">> >>
    /\ sigPc = "done"

\* C15: a run that fails at the unpacking of a malformed
\* gallery_image_fullname has made no remote call before: no platform
\* initialization, environment load, stop, generalize, blob check, ensure
\* or create.
C15_MalformedNameFailsBeforeAnyCall ==
    sigError = "parse" => sigCalls = <<>>

\* C16: in a run with vm_resource_group set, the image definition is
\* ensured only after the VM was generalized and with disk controller type
\* "SCSI,NVMe", and the source handed to the creation of the image version
\* is the id of the VM's OS managed disk; in a run without it, generalize
\* is never called and the disk controller type is "SCSI".
C16_SourceDecidesControllerType ==
    IF sigRb.vm_resource_group # ""
    THEN /\ \A i \in SigAt("check_or_create_gallery_image") :
              /\ sigCalls[i].arg.gallery_image_disk_controller = "SCSI,NVMe"
              /\ "generalize" \in SigOkOps /\ vmState.generalized
         /\ \A i \in SigAt("check_or_create_gallery_image_version_from_vhd") :
              sigCalls[i].arg.vhd_path = <<"/disks/", OsDiskName(vmEnv[1])>>
    ELSE /\ "generalize" \notin SigOps /\ ~vmState.generalized
         /\ \A i \in SigAt("check_or_create_gallery_image") :
              sigCalls[i].arg.gallery_image_disk_controller = "SCSI"

\* a run with vm_resource_group set has asked for the image version
C16_Witness ==
    /\ sigRb.vm_resource_group # ""
    /\ "check_or_create_gallery_image" \in SigOkOps
    /\ SigAt("check_or_create_gallery_image_version_from_vhd") # {}

\* C17: generalize is issued only after a stop of the VM returned, at most
\* once per run, and never in a run whose stop failed.
C17_GeneralizeOnlyAfterStop ==
    /\ \A i \in SigAt("generalize") :
          \E j \in SigAt("stop") : j < i /\ sigCalls[j].ok
    /\ Cardinality(SigAt("generalize")) <= 1
    /\ (\E j \in SigAt("stop") : ~sigCalls[j].ok) => SigAt("generalize") = {}
    /\ vmState.generalized => vmState.power = "stopped"

\* the VM was stopped and then generalized
C17_Witness ==
    "stop" \in SigOkOps /\ "generalize" \in SigOkOps /\ vmState.generalized

SigEnsureOps ==
    {"check_or_create_resource_group", "check_or_create_gallery",
     "check_or_create_gallery_image",
     "check_or_create_gallery_image_version_from_vhd"}

\* C18: in a run without vm_resource_group whose source blob does not
\* exist, no resource group, gallery, image definition or image version is
\* ensured or created, and once the blob was looked for the run has failed
\* at the check with no output.
C18_MissingSourceBlobIsFatal ==
    sigRb.vm_resource_group = "" /\ ~sourceBlob =>
        /\ SigOps \cap SigEnsureOps = {}
        /\ SigAt("check_blob_exist") # {} =>
              /\ sigPc = "failed" /\ sigError = "check_blob_exist"
              /\ sigOutput = <<>>

\* check_blob_exist returned for a blob that does not exist, and the run
\* failed
C18_Witness ==
    /\ sigRb.vm_resource_group = "" /\ ~sourceBlob
    /\ "check_blob_exist" \in SigOkOps
    /\ sigPc = "failed"

\* C19: the last four calls of a run that returned are the ensure of the
\* resource group, of the gallery, of the image definition and the creation
\* of the image version, in this order, each having returned; its output is
\* the single entry "url", made of gallery_name, gallery_image_name and the
\* last word of gallery_image_fullname, joined by "/".
C19_EnsureOrderAndUrl ==
    sigPc = "done" =>
        LET n == Len(sigCalls)
            s == sigRb.gallery_image_fullname
            last == CHOOSE j \in 1..Len(s) :
                        s[j] # " " /\ \A m \in (j + 1)..Len(s) : s[m] = " "
            first == CHOOSE i \in 1..last :
                        /\ \A m \in i..last : s[m] # " "
                        /\ i = 1 \/ s[i - 1] = " "
        IN  /\ n >= Cardinality(SigEnsureOps)
            /\ sigCalls[n - 3].op = "check_or_create_resource_group"
            /\ sigCalls[n - 2].op = "check_or_create_gallery"
            /\ sigCalls[n - 1].op = "check_or_create_gallery_image"
            /\ sigCalls[n].op = "check_or_create_gallery_image_version_from_vhd"
            /\ \A i \in (n - 3)..n : sigCalls[i].ok
            /\ \A op \in SigEnsureOps : Cardinality(SigAt(op)) = 1
            /\ DOMAIN sigOutput = {"url"}
            /\ sigOutput.url = <<sigRb.gallery_name, "/", sigRb.gallery_image_name, "/">>
                                  \o SubSeq(s, first, last)

\* a run returned the url of a version whose name has two characters
C19_Witness ==
    /\ sigPc = "done"
    /\ sigOutput = [url |-> <<"lisa_default_gallery", "/", "image1", "/", "0.0.1">>]

---------------------------------------------------------------------------
(* Properties of the export run, continued *)

\* C25: the calls of a run that returned, the listings of the path
\* allocator apart, are in order and once each: platform and environment
\* load, deprovision, stop, the read of the VM, the grant and its wait, the
\* ensure of the storage account and of the container, the start of the
\* copy and its wait, the revoke and its wait, and a start exactly when
\* restore is set; every call returned; the listings of the allocator lie
\* between the ensure of the container and the start of the copy; and the
\* output is the container url, "/" and the name of the blob the copy was
\* written to.
C25_SuccessfulExportOrder ==
    \A r \in Runs : pc[r] = "done" =>
        LET n == Len(calls[r])
            remote == SelectSeq(calls[r], LAMBDA c : c.op # "list_blobs")
            copy == CHOOSE i \in 1..n : calls[r][i].op = "start_copy_from_url"
            container == CHOOSE i \in 1..n :
                            calls[r][i].op = "get_or_create_storage_container"
        IN  /\ [i \in 1..Len(remote) |-> remote[i].op] =
                 <<"initialize", "load_environment", "deprovision", "stop",
                   "get_vm", "begin_grant_access", "wait_operation_grant",
                   "check_or_create_storage_account",
                   "get_or_create_storage_container", "start_copy_from_url",
                   "wait_copy_blob", "begin_revoke_access",
                   "wait_operation_revoke">>
                 \o (IF rb[r].restore THEN <<"start">> ELSE <<>>)
            /\ \A i \in 1..n : calls[r][i].ok
            /\ \A i \in 1..n : calls[r][i].op = "list_blobs" =>
                                    container < i /\ i < copy
            /\ rb[r].custom_blob_name = <<>> =>
                  calls[r][copy - 1].op = "list_blobs"
            /\ output[r] = <<ContainerUrl, "/">> \o calls[r][copy].arg
            /\ calls[r][copy].arg \in blobs

\* a run with restore set returned, having listed the container for its path
C25_Witness ==
    \E r \in Runs :
        /\ pc[r] = "done" /\ rb[r].restore
        /\ "list_blobs" \in Ops(r) /\ "start" \in OkOps(r)

\* C26: every grant a run requests is a "Read" grant of 86400 seconds on the
\* OS disk of its node; a run is past the grant only with a signed url that
\* is not empty: a run whose grant operation completed with an empty url
\* has failed there, and has ensured no storage account or container and
\* started no copy.
C26_GrantReadAndNonEmptyUrl ==
    \A r \in Runs :
        /\ \A i \in 1..Len(calls[r]) : calls[r][i].op = "begin_grant_access" =>
              calls[r][i].arg =
                  <<rb[r].resource_group_name, OsDiskName(node[r]), "Read", "86400">>
        /\ "wait_operation_grant" \in OkOps(r) /\ pc[r] # "wait_grant" =>
              IF sasUrl[r] = <<>>
              THEN /\ pc[r] = "failed" /\ error[r] = "wait_grant"
                   /\ Ops(r) \cap {"check_or_create_storage_account",
                                   "get_or_create_storage_container",
                                   "list_blobs", "start_copy_from_url"} = {}
              ELSE error[r] # "wait_grant"
        /\ "check_or_create_storage_account" \in Ops(r) => sasUrl[r] # <<>>

\* the grant operation of a run completed without a url, and the run failed
C26_Witness ==
    \E r \in Runs :
        /\ "wait_operation_grant" \in OkOps(r) /\ sasUrl[r] = <<>>
        /\ pc[r] = "failed" /\ sas[node[r]]

---------------------------------------------------------------------------
(* Properties of the publication run, continued *)

\* C27: after the unpacking neither gallery location of the runbook is
\* empty, the resource group of the gallery is ensured at
\* gallery_resource_group_location and the gallery at gallery_location.
C27_GalleryLocationsUsed ==
    /\ PastParse /\ sigError # "parse" =>
          /\ sigRb.gallery_resource_group_location # ""
          /\ sigRb.gallery_location # ""
    /\ \A i \in SigAt("check_or_create_resource_group") :
          sigCalls[i].arg.location = sigRb.gallery_resource_group_location
    /\ \A i \in SigAt("check_or_create_gallery") :
          sigCalls[i].arg.gallery_location = sigRb.gallery_location

\* C30: in a run with vm_resource_group set, get_vhd_details, the blob
\* check and every ensure and create call come after a stop and a
\* generalize that returned; a run that failed at one of them leaves the VM
\* stopped and generalized, without output and without an image version
\* request that returned; a VM that was generalized stays generalized.
C30_GeneralizeBeforeSourceCheck ==
    sigRb.vm_resource_group # "" =>
        LET late == SigEnsureOps \cup {"get_vhd_details", "check_blob_exist"} IN
        /\ \A i \in 1..Len(sigCalls) : sigCalls[i].op \in late =>
              /\ \E j \in SigAt("stop") : j < i /\ sigCalls[j].ok
              /\ \E j \in SigAt("generalize") : j < i /\ sigCalls[j].ok
        /\ sigError \in late =>
              /\ sigPc = "failed"
              /\ vmState = [power |-> "stopped", generalized |-> TRUE]
              /\ sigOutput = <<>>
              /\ "check_or_create_gallery_image_version_from_vhd" \notin SigOkOps
        /\ "generalize" \in SigOkOps => vmState.generalized
        /\ SigOps \cap {"start", "deallocate", "delete"} = {}

\* the VM was generalized and the blob check then failed the run
C30_Witness ==
    /\ sigRb.vm_resource_group # ""
    /\ sigError = "check_blob_exist" /\ sigPc = "failed"
    /\ vmState.generalized

---------------------------------------------------------------------------
(* Properties of concurrent path allocation, continued *)

\* C29: two concurrent runs with the same file_name_part never both start a
\* copy on the same blob of the container.
C29_ConcurrentCopiesDistinct ==
    \A r1, r2 \in Runs :
        r1 # r2 /\ rb[r1].file_name_part = rb[r2].file_name_part =>
            \A i \in CopyCalls(r1), j \in CopyCalls(r2) :
                calls[r1][i].ok /\ calls[r2][j].ok =>
                    calls[r1][i].arg # calls[r2][j].arg

---------------------------------------------------------------------------
(* Properties of the waits of an export run *)

\* C22: every blocking wait of an export run (the waits for the grant and
\* for the revoke, the poll of the copy) is cut short by a deadline, so the
\* run terminates even if the awaited operation or copy never reaches a
\* terminal state.  Refuted: the waits are made without a timeout, and the
\* run polls and sleeps for ever.
C22_RunTerminatesDespiteWaits == <>Terminated(1)

---------------------------------------------------------------------------
(* Properties of deploy and delete *)

\* C21: for any resource group name, one given or one an earlier deploy
\* returned, the delete run passes platform.delete_environment a
\* single-node placeholder environment whose context carries the requested
\* name and has resource_group_is_specified set, calls it at most once and
\* exactly once when it returns, never raises for lack of node data, and
\* returns the empty dictionary.
C21_DeleteByNameOnly ==
    /\ Len(delCalls) <= 1
    /\ \A i \in 1..Len(delCalls) :
          /\ Len(delCalls[i].nodes) = 1
          /\ delCalls[i].resource_group_name = delRb.resource_group_name
          /\ delCalls[i].resource_group_is_specified
    /\ delError # "no_node_data"
    /\ delPc = "done" =>
          /\ Len(delCalls) = 1
          /\ delOutput = << <<>> >>
          /\ delError = ""
          /\ delRb.resource_group_name \notin groups
    /\ delPc # "done" => delOutput = <<>>

\* a delete run returned after deleting the group an earlier deploy made
C21_Witness ==
    /\ delPc = "done"
    /\ delRb.resource_group_name = DeployedGroup
    /\ Len(delCalls) = 1

---------------------------------------------------------------------------
(* Properties of the procedures of the test suites *)

\* C23: in both patch workflows a failure the provider reports leaves the
\* workflow as the skip of an unsupported image exactly when its message
\* contains "The selected VM image is not supported" or "CPU Architecture
\* 'arm64' was not found in the extension repository"; any other failure of
\* the provider leaves it unchanged; in both cases nothing follows the
\* failure, so no assertion on the status file is evaluated.
C23_UnsupportedImageReclassified ==
    suiteProc \in {"assessment", "installation"} =>
        \A i \in 1..Len(suiteLog) :
            suiteLog[i].arg.kind = "HttpResponseError" =>
                LET m == suiteLog[i].arg.msg
                    known ==
                        \E a, b \in 0..Len(m) :
                            SubSeq(m, a + 1, b) \in
                                { <<"The", "selected", "VM", "image", "is",
                                    "not", "supported">>,
                                  <<"CPU", "Architecture", "'arm64'", "was",
                                    "not", "found", "in", "the", "extension",
                                    "repository">> }
                IN  /\ i = Len(suiteLog)
                    /\ suitePc = "raised"
                    /\ Len(suiteRaised) = 1
                    /\ known => suiteRaised[1].type = "SkippedException"
                    /\ ~known => suiteRaised[1] =
                                    [type |-> "HttpResponseError", msg |-> m]

\* an installation workflow skipped for the arm64 message of its operation
C23_Witness ==
    /\ suiteProc = "installation"
    /\ Len(suiteLog) = 2
    /\ suiteLog[2].arg.kind = "HttpResponseError"
    /\ suiteLog[2].arg.msg[1] = "CPU"
    /\ suiteRaised = <<SkippedUnsupportedImage>>

\* C24: do_installation(required_version) sets the node up first; then it
\* goes through the reinstall sequence (uninstall, install dependencies,
\* install) exactly when the package is not installed or a required_version
\* is given that is newer than the installed version, and when the package
\* is installed and no newer version is required it returns without
\* reinstalling and without raising.
C24_ReinstallExactlyWhenNeeded ==
    suiteProc = "do_installation" =>
        LET ops == {suiteLog[i].op : i \in 1..Len(suiteLog)}
            want ==
                \/ ~suiteIn.installed
                \/ /\ suiteIn.required_version # <<>>
                   /\ suiteIn.required_version[1] > suiteIn.installed_version[1]
            decided ==
                /\ suitePc \notin {"setup_node", "should_install"}
                /\ suiteRaised # InstallerError("setup_node")
        IN  /\ suiteLog # <<>> => suiteLog[1].op = "setup_node"
            /\ decided /\ want =>
                  /\ suitePc \in {"uninstall", "install_dependencies",
                                  "install", "returned", "raised"}
                  /\ suitePc # "uninstall" => "uninstall" \in ops
                  /\ suitePc = "returned" => "install" \in ops
                  /\ suitePc = "raised" => suiteRaised[1].type # "TypeError"
            /\ decided /\ ~want =>
                  /\ suitePc = "returned"
                  /\ suiteRaised = <<>>
                  /\ ops = {"setup_node"}

\* C28: install_required_packages goes through the requirements in list
\* order, installs packages only of requirements whose matcher accepts, and
\* stops at the first requirement whose matcher accepts and whose stop flag
\* is set: no later requirement's matcher is evaluated (a trailing
\* unsupported_os_thrower does not raise) and no later packages are
\* installed.
C28_StopsAtFirstStopOnMatch ==
    suiteProc \in {"do_installation", "install_required_packages"} =>
        LET reqs == suiteIn.requirements
            IsMatcher(e) == e.op = "matcher"
            evaluated == SelectSeq(suiteLog, IsMatcher)
        IN  /\ \A k \in 1..Len(evaluated) : evaluated[k].arg = k
            /\ \A i \in 1..Len(suiteLog) :
                  suiteLog[i].op = "install_packages" =>
                      reqs[suiteLog[i].arg].matcher = "accept"
            /\ \A s \in 1..Len(reqs) :
                  reqs[s].matcher = "accept" /\ reqs[s].stop_on_match =>
                      \A i \in 1..Len(suiteLog) :
                          suiteLog[i].op \in {"matcher", "install_packages"}
                              => suiteLog[i].arg <= s

====
